---------------------------- MODULE Spec2Model ----------------------------
(***************************************************************************)
(* Model of the rule-based answer scorer (supabase/functions/score-answer) *)
(* and of the voice analytics of supabase/functions/analyze-answers.       *)
(*                                                                         *)
(* Strings are sequences of one-character strings, so that lower-casing,   *)
(* trimming, splitting and substring search are computed character by      *)
(* character as the JavaScript string methods compute them.                *)
(*                                                                         *)
(* Numbers are exact: a fractional quantity is a pair <<n, d>> standing    *)
(* for n/d (d > 0), and the four numbers of a Feedback, which the source   *)
(* rounds to one decimal place, are kept in tenths (76 stands for 7.6).    *)
(* The source computes in IEEE doubles; on the inputs enumerated here no   *)
(* sum lies on a rounding tie and no threshold product (ideal * 0.8, ...)  *)
(* rounds across an integer, so the exact results are the doubles' ones.   *)
(***************************************************************************)
EXTENDS Integers, Sequences, FiniteSets, TLC

VARIABLES
    answerText,        \* scoreAnswer argument: the raw answer
    expectedKeywords,  \* scoreAnswer argument: the rubric's keyword list
    idealLength,       \* scoreAnswer argument: the rubric's ideal word count
    feedback,          \* the Feedback returned for the arguments, or NoFeedback
    locals,            \* scoreAnswer's local variables when it returned
    lastCall,          \* the call made before the current one, or NoCall
    callKind,          \* how the current arguments were derived from lastCall
    answerRow,         \* analyze-answers: the interview_answers row being analysed
    aiReply,           \* analyze-answers: the AI gateway's reply for the answer
    voicePc,           \* analyze-answers: position in the per-answer step
    questions,         \* score-answer: interview_questions with their answers
    interviewRow,      \* score-answer: the interviews row
    progress,          \* the user's user_progress row, or none
    handlerPc,         \* score-answer: position of the serve handler
    qIndex,            \* score-answer: the question the loop is at
    handlerTotal,      \* score-answer: the handler's totalScore, in tenths
    answeredCount,     \* score-answer: the handler's answeredCount
    requests,          \* score-answer: invocations for the interview so far
    caller,            \* score-answer: the user the request's token belongs to
    startReq,          \* start-interview: each request's position and locals
    interviewQuestions,\* start-interview: the interview_questions rows inserted
    currentIndex,      \* InterviewSession: index of the question shown
    textAnswer,        \* InterviewSession: the text in the answer box
    answers,           \* InterviewSession: the local map question -> answer
    answerRows,        \* InterviewSession: interview_answers rows by question
    answerMode         \* InterviewSession: 'text' or 'voice'

vars == <<answerText, expectedKeywords, idealLength, feedback, locals, lastCall,
          callKind, answerRow, aiReply, voicePc, questions, interviewRow,
          progress, handlerPc, qIndex, handlerTotal, answeredCount, requests,
          caller, startReq, interviewQuestions, currentIndex, textAnswer,
          answers, answerRows, answerMode>>

scoreVars == <<answerText, expectedKeywords, idealLength, feedback, locals, lastCall,
               callKind>>

voiceVars == <<answerRow, aiReply, voicePc>>

handlerVars == <<questions, interviewRow, progress, handlerPc, qIndex,
                 handlerTotal, answeredCount, requests, caller>>

startVars == <<startReq, interviewQuestions>>

sessionVars == <<currentIndex, textAnswer, answers, answerRows, answerMode>>

-----------------------------------------------------------------------------
(* Bounds of the input space.                                              *)

MaxChunks == 2      \* chunks an answer text is concatenated from

MaxKeywords == 2    \* keywords of a rubric

MaxTokens == 3      \* tokens a transcript is concatenated from

MaxQuestions == 2   \* questions of an interview

MaxRequests == 2    \* invocations of score-answer for one interview

-----------------------------------------------------------------------------
(* JavaScript string primitives.                                           *)

UpperCase ==
    <<"A", "B", "C", "D", "E", "F", "G", "H", "I", "J", "K", "L", "M", "N",
       "O", "P", "Q", "R", "S", "T", "U", "V", "W", "X", "Y", "Z">>

LowerCase ==
    <<"a", "b", "c", "d", "e", "f", "g", "h", "i", "j", "k", "l", "m", "n",
       "o", "p", "q", "r", "s", "t", "u", "v", "w", "x", "y", "z">>

WhiteSpace == {" ", "\t", "\n"}

\* The lower-case form of each upper-case letter.
LowerOf ==
    [c \in {UpperCase[i] : i \in 1..26} |->
        LowerCase[CHOOSE i \in 1..26 : UpperCase[i] = c]]

toLowerCaseChar(c) == IF c \in DOMAIN LowerOf THEN LowerOf[c] ELSE c

toLowerCase(s) == [i \in 1..Len(s) |-> toLowerCaseChar(s[i])]

trim(s) ==
    LET solid == {i \in 1..Len(s) : s[i] \notin WhiteSpace}
    IN  IF solid = {} THEN <<>>
        ELSE SubSeq(s, CHOOSE i \in solid : \A j \in solid : i <= j,
                       CHOOSE i \in solid : \A j \in solid : i >= j)

\* sub occurs in s at index i.
occursAt(s, sub, i) ==
    /\ i >= 1
    /\ i + Len(sub) - 1 <= Len(s)
    /\ \A j \in 1..Len(sub) : s[i + j - 1] = sub[j]

includes(s, sub) == \E i \in 1..(Len(s) - Len(sub) + 1) : occursAt(s, sub, i)

\* s.split(/[seps]+/): the pieces between maximal runs of separator characters,
\* the empty pieces at either end included.
splitRegex(s, seps) ==
    LET n == Len(s)
        starts == {1} \cup {i + 1 : i \in {j \in 1..n : /\ s[j] \in seps
                                                       /\ (j = n \/ s[j + 1] \notin seps)}}
        rank == [p \in starts |-> Cardinality({q \in starts : q < p})]
        stop(p) == IF \E e \in p..n : s[e] \in seps
                   THEN (CHOOSE e \in p..n :
                            /\ s[e] \in seps
                            /\ \A f \in p..(e - 1) : s[f] \notin seps) - 1
                   ELSE n
    IN  [k \in 1..Cardinality(starts) |->
            LET p == CHOOSE q \in starts : rank[q] = k - 1
            IN  SubSeq(s, p, stop(p))]

RECURSIVE SplitAt(_, _, _, _)
SplitAt(s, sub, from, acc) ==
    LET hits == {i \in from..(Len(s) - Len(sub) + 1) : occursAt(s, sub, i)}
    IN  IF hits = {}
        THEN Append(acc, SubSeq(s, from, Len(s)))
        ELSE LET hit == CHOOSE i \in hits : \A j \in hits : i <= j
             IN  SplitAt(s, sub, hit + Len(sub), Append(acc, SubSeq(s, from, hit - 1)))

\* s.split(sub) for a non-empty separator string: the pieces between the
\* occurrences of sub, found left to right without overlap.
splitString(s, sub) == SplitAt(s, sub, 1, <<>>)

RECURSIVE join(_, _)
join(seq, sep) ==
    IF seq = <<>> THEN <<>>
    ELSE IF Len(seq) = 1 THEN seq[1]
    ELSE seq[1] \o sep \o join(Tail(seq), sep)

-----------------------------------------------------------------------------
(* Exact arithmetic on fractions <<n, d>>, d > 0.                          *)

Less(p, q) == p[1] * q[2] < q[1] * p[2]

LessEq(p, q) == p[1] * q[2] <= q[1] * p[2]

Int1(n) == <<n, 1>>

Plus(p, q) == <<p[1] * q[2] + q[1] * p[2], p[2] * q[2]>>

Times(p, q) == <<p[1] * q[1], p[2] * q[2]>>

\* Math.round(x): the integer nearest to x, a half rounded up.
MathRound(p) == (2 * p[1] + p[2]) \div (2 * p[2])

\* Math.round(x * 10) / 10, in tenths.
\* Variant: Math.floor in place of Math.round.
RoundTenthsDown(p) == (10 * p[1]) \div p[2]

RoundTenths(p) == MathRound(<<10 * p[1], p[2]>>)

-----------------------------------------------------------------------------
(* scoreAnswer, supabase/functions/score-answer/index.ts.                  *)

SentenceEnd == {".", "!", "?"}

answerOf(text) == trim(toLowerCase(text))

words(answer) ==
    SelectSeq(splitRegex(answer, WhiteSpace), LAMBDA w : Len(w) > 0)

sentences(answer) ==
    SelectSeq(splitRegex(answer, SentenceEnd), LAMBDA s : Len(trim(s)) > 0)

\* Variant: a keyword counts only when it is one of the answer's words.
matchedWholeWords(answer, keywords) ==
    SelectSeq(keywords,
           LAMBDA kw : \E i \in 1..Len(words(answer)) :
                          words(answer)[i] = toLowerCase(kw))

\* Variant: the keyword is compared as it is spelled in the rubric.
matchedCaseSensitive(answer, keywords) ==
    SelectSeq(keywords, LAMBDA kw : includes(answer, kw))

\* 1. Keyword matching score (40% of total)
matchedKeywords(answer, keywords) ==
    SelectSeq(keywords, LAMBDA kw : includes(answer, toLowerCase(kw)))

\* Variant: the ratio of the keywords that are missing.
keywordRatioMissing(matched, keywords) ==
    IF Len(keywords) > 0
    THEN <<Len(keywords) - Len(matched), Len(keywords)>>
    ELSE <<0, 1>>

\* Variant: an empty keyword list counts as covered in full.
keywordRatioVacuous(matched, keywords) ==
    IF Len(keywords) > 0 THEN <<Len(matched), Len(keywords)>> ELSE <<1, 1>>

keywordRatio(matched, keywords) ==
    IF Len(keywords) > 0 THEN <<Len(matched), Len(keywords)>> ELSE <<0, 1>>

keywordScore(ratio) == <<ratio[1] * 10, ratio[2]>>

\* Variant: the verbosity penalty from one and a half times the ideal length.
lengthScoreVerboseEarly(wordCount, ideal) ==
    IF 2 * wordCount < ideal
    THEN <<12 * wordCount, ideal>>
    ELSE IF 2 * wordCount > ideal * 3 THEN <<7, 1>>
    ELSE IF 5 * wordCount >= 4 * ideal /\ 2 * wordCount <= 3 * ideal THEN <<10, 1>>
    ELSE <<8, 1>>

\* 2. Length score (20% of total)
lengthScore(wordCount, ideal) ==
    IF 2 * wordCount < ideal
    THEN <<12 * wordCount, ideal>>       \* (wordCount / (ideal * 0.5)) * 6
    ELSE IF wordCount > ideal * 2 THEN <<7, 1>>
    ELSE IF 5 * wordCount >= 4 * ideal /\ 2 * wordCount <= 3 * ideal THEN <<10, 1>>
    ELSE <<8, 1>>

\* 3. Structure score (20% of total)
\* The second list marker is spelled in the source as the three characters
\* U+00E2 U+20AC U+00A2; they are named here, one string per character.
listMarkers == << <<"-">>, <<"U+00E2", "U+20AC", "U+00A2">>, <<"1", ".">> >>

transitionWords ==
    << <<"f", "i", "r", "s", "t">>, <<"s", "e", "c", "o", "n", "d">>, <<"t", "h", "e", "n">>, <<"n", "e", "x", "t">>, <<"f", "i", "n", "a", "l", "l", "y">>,
       <<"h", "o", "w", "e", "v", "e", "r">>, <<"t", "h", "e", "r", "e", "f", "o", "r", "e">>, <<"b", "e", "c", "a", "u", "s", "e">>, <<"f", "o", "r", " ", "e", "x", "a", "m", "p", "l", "e">> >>

hasTransitions(answer) ==
    \E i \in 1..Len(transitionWords) : includes(answer, transitionWords[i])

Min(a, b) == IF a <= b THEN a ELSE b

Max(a, b) == IF a >= b THEN a ELSE b

\* Variant: the two-point bonus only for more than three sentences.
structureScoreStrict(answer, sentenceCount) ==
    LET multi == IF sentenceCount > 3 THEN 2
                 ELSE IF sentenceCount >= 2 THEN 1 ELSE 0
        marks == IF \E i \in 1..Len(listMarkers) : includes(answer, listMarkers[i])
                 THEN 2 ELSE 0
        trans == IF hasTransitions(answer) THEN 1 ELSE 0
    IN  Min(10, 5 + multi + marks + trans)

structureScore(answer, sentenceCount) ==
    LET multi == IF sentenceCount >= 3 THEN 2
                 ELSE IF sentenceCount >= 2 THEN 1 ELSE 0
        marks == IF \E i \in 1..Len(listMarkers) : includes(answer, listMarkers[i])
                 THEN 2 ELSE 0
        trans == IF hasTransitions(answer) THEN 1 ELSE 0
    IN  Min(10, 5 + multi + marks + trans)

\* 4. Clarity score (20% of total)
avgSentenceLength(wordCount, sentenceCount) ==
    IF sentenceCount > 0 THEN <<wordCount, sentenceCount>> ELSE <<wordCount, 1>>

fillerWords ==
    << <<"u", "m">>, <<"u", "h">>, <<"l", "i", "k", "e">>, <<"y", "o", "u", " ", "k", "n", "o", "w">>, <<"b", "a", "s", "i", "c", "a", "l", "l", "y">>, <<"a", "c", "t", "u", "a", "l", "l", "y">> >>

RECURSIVE reduceFillers(_, _, _)
reduceFillers(answer, i, count) ==
    IF i > Len(fillerWords) THEN count
    ELSE reduceFillers(answer, i + 1,
                       count + (Len(splitString(answer, fillerWords[i])) - 1))

\* Variant: split(fw).length without the - 1.
fillerCountOffByOne(answer) == reduceFillers(answer, 1, 0) + Len(fillerWords)

fillerCount(answer) == reduceFillers(answer, 1, 0)

\* Variant: the filler penalty only above six fillers.
clarityScoreLateThreshold(avg, fillers) ==
    LET len == IF LessEq(Int1(10), avg) /\ LessEq(avg, Int1(30)) THEN 2
               ELSE IF Less(avg, Int1(10)) THEN 1 ELSE 0
        fill == IF fillers = 0 THEN 1 ELSE IF fillers > 6 THEN -2 ELSE 0
    IN  Max(0, Min(10, 7 + len + fill))

\* Variant: a three-point penalty for more than five fillers.
clarityScoreHarshPenalty(avg, fillers) ==
    LET len == IF LessEq(Int1(10), avg) /\ LessEq(avg, Int1(30)) THEN 2
               ELSE IF Less(avg, Int1(10)) THEN 1 ELSE 0
        fill == IF fillers = 0 THEN 1 ELSE IF fillers > 5 THEN -3 ELSE 0
    IN  Max(0, Min(10, 7 + len + fill))

\* Variant: the two-point bonus only above ten words a sentence.
clarityScoreOpenRange(avg, fillers) ==
    LET len == IF Less(Int1(10), avg) /\ LessEq(avg, Int1(30)) THEN 2
               ELSE IF LessEq(avg, Int1(10)) THEN 1 ELSE 0
        fill == IF fillers = 0 THEN 1 ELSE IF fillers > 5 THEN -2 ELSE 0
    IN  Max(0, Min(10, 7 + len + fill))

clarityScore(avg, fillers) ==
    LET len == IF LessEq(Int1(10), avg) /\ LessEq(avg, Int1(30)) THEN 2
               ELSE IF Less(avg, Int1(10)) THEN 1 ELSE 0
        fill == IF fillers = 0 THEN 1 ELSE IF fillers > 5 THEN -2 ELSE 0
    IN  Max(0, Min(10, 7 + len + fill))

\* Variant: the keyword score weighted 0.5, the weights summing to 1.1.
totalScoreOverweight(ks, ls, ss, cs) ==
    Plus(Plus(Times(ks, <<5, 10>>), Times(ls, <<2, 10>>)),
         Plus(Times(Int1(ss), <<2, 10>>), Times(Int1(cs), <<2, 10>>)))

\* keywordScore * 0.4 + lengthScore * 0.2 + structureScore * 0.2 + clarityScore * 0.2
totalScore(ks, ls, ss, cs) ==
    Plus(Plus(Times(ks, <<4, 10>>), Times(ls, <<2, 10>>)),
         Plus(Times(Int1(ss), <<2, 10>>), Times(Int1(cs), <<2, 10>>)))

\* The local variables of scoreAnswer when it returns.
scoreLocals(text, keywords, ideal) ==
    LET answer == answerOf(text)
        wc == Len(words(answer))
        sc == Len(sentences(answer))
        matched == matchedKeywords(answer, keywords)
        ratio == keywordRatio(matched, keywords)
        ss == structureScore(answer, sc)
        fc == fillerCount(answer)
        cs == clarityScore(avgSentenceLength(wc, sc), fc)
    IN  [answer |-> answer, wordCount |-> wc, sentenceCount |-> sc,
         matchedKeywords |-> matched, keywordRatio |-> ratio,
         keywordScore |-> keywordScore(ratio),
         lengthScore |-> lengthScore(wc, ideal),
         structureScore |-> ss, fillerCount |-> fc, clarityScore |-> cs,
         totalScore |-> totalScore(keywordScore(ratio), lengthScore(wc, ideal),
                                   ss, cs)]

Note(text) == [text |-> text, list |-> <<>>]

NoNotes == [strengths |-> <<>>, weaknesses |-> <<>>, suggestions |-> <<>>]

\* Variant: only the first missing keyword is listed, slice(0, 1).
keywordFeedbackFirstMissing(answer, keywords, r) ==
    LET missingKeywords ==
            SelectSeq(keywords, LAMBDA kw : ~includes(answer, toLowerCase(kw)))
    IN  IF 10 * r[1] >= 7 * r[2]
        THEN [NoNotes EXCEPT
                !.strengths = <<"Covered most of the key technical concepts">>]
        ELSE IF 10 * r[1] >= 4 * r[2]
        THEN [NoNotes EXCEPT
                !.weaknesses = <<"Some important concepts were missing">>,
                !.suggestions =
                    IF Len(missingKeywords) > 0 /\ Len(missingKeywords) <= 3
                    THEN << [text |-> "Consider discussing: ",
                             list |-> join(SubSeq(missingKeywords, 1,
                                                  Min(1, Len(missingKeywords))),
                                           <<",", " ">>)] >>
                    ELSE <<>>]
        ELSE [NoNotes EXCEPT
                !.weaknesses = <<"Many key concepts were not addressed">>,
                !.suggestions =
                    <<Note("Review the fundamental concepts related to this topic")>>]

\* Variant: the suggestion is made for up to four missing keywords.
keywordFeedbackUpToFour(answer, keywords, r) ==
    LET missingKeywords ==
            SelectSeq(keywords, LAMBDA kw : ~includes(answer, toLowerCase(kw)))
    IN  IF 10 * r[1] >= 7 * r[2]
        THEN [NoNotes EXCEPT
                !.strengths = <<"Covered most of the key technical concepts">>]
        ELSE IF 10 * r[1] >= 4 * r[2]
        THEN [NoNotes EXCEPT
                !.weaknesses = <<"Some important concepts were missing">>,
                !.suggestions =
                    IF Len(missingKeywords) > 0 /\ Len(missingKeywords) <= 4
                    THEN << [text |-> "Consider discussing: ",
                             list |-> join(SubSeq(missingKeywords, 1,
                                                  Min(3, Len(missingKeywords))),
                                           <<",", " ">>)] >>
                    ELSE <<>>]
        ELSE [NoNotes EXCEPT
                !.weaknesses = <<"Many key concepts were not addressed">>,
                !.suggestions =
                    <<Note("Review the fundamental concepts related to this topic")>>]

keywordFeedback(answer, keywords, r) ==
    LET missingKeywords ==
            SelectSeq(keywords, LAMBDA kw : ~includes(answer, toLowerCase(kw)))
    IN  IF 10 * r[1] >= 7 * r[2]
        THEN [NoNotes EXCEPT
                !.strengths = <<"Covered most of the key technical concepts">>]
        ELSE IF 10 * r[1] >= 4 * r[2]
        THEN [NoNotes EXCEPT
                !.weaknesses = <<"Some important concepts were missing">>,
                !.suggestions =
                    IF Len(missingKeywords) > 0 /\ Len(missingKeywords) <= 3
                    THEN << [text |-> "Consider discussing: ",
                             list |-> join(SubSeq(missingKeywords, 1,
                                                  Min(3, Len(missingKeywords))),
                                           <<",", " ">>)] >>
                    ELSE <<>>]
        ELSE [NoNotes EXCEPT
                !.weaknesses = <<"Many key concepts were not addressed">>,
                !.suggestions =
                    <<Note("Review the fundamental concepts related to this topic")>>]

lengthFeedback(wc, ideal) ==
    IF 2 * wc < ideal
    THEN [NoNotes EXCEPT
            !.weaknesses = <<"Answer was too brief">>,
            !.suggestions =
                <<Note("Provide more detail and examples in your response")>>]
    ELSE IF 5 * wc >= 4 * ideal /\ 2 * wc <= 3 * ideal
    THEN [NoNotes EXCEPT
            !.strengths = <<"Good answer length with appropriate detail">>]
    ELSE IF wc > ideal * 2
    THEN [NoNotes EXCEPT
            !.weaknesses = <<"Answer was longer than necessary">>,
            !.suggestions =
                <<Note("Try to be more concise while covering key points")>>]
    ELSE NoNotes

structureFeedback(ss) ==
    IF ss >= 8
    THEN [NoNotes EXCEPT
            !.strengths = <<"Well-structured response with clear organization">>]
    ELSE IF ss < 6
    THEN [NoNotes EXCEPT
            !.weaknesses = <<"Answer could be better organized">>,
            !.suggestions =
                <<Note("Use a structured approach: introduce the concept, explain details, give examples")>>]
    ELSE NoNotes

clarityFeedback(cs, fillers) ==
    IF cs >= 8
    THEN [NoNotes EXCEPT
            !.strengths = <<"Clear and easy to understand explanation">>]
    ELSE IF fillers > 3
    THEN [NoNotes EXCEPT
            !.weaknesses = <<"Too many filler words detected">>,
            !.suggestions =
                <<Note("Practice speaking more directly without filler words")>>]
    ELSE NoNotes

\* The Feedback scoreAnswer returns, from its local variables.
feedbackOf(loc, keywords, ideal) ==
    LET kf == keywordFeedback(loc.answer, keywords, loc.keywordRatio)
        lf == lengthFeedback(loc.wordCount, ideal)
        sf == structureFeedback(loc.structureScore)
        cf == clarityFeedback(loc.clarityScore, loc.fillerCount)
    IN  [score              |-> RoundTenths(loc.totalScore),
         technical_accuracy |-> RoundTenths(loc.keywordScore),
         clarity            |-> RoundTenths(Int1(loc.clarityScore)),
         structure          |-> RoundTenths(Int1(loc.structureScore)),
         strengths   |-> kf.strengths \o lf.strengths \o sf.strengths \o cf.strengths,
         weaknesses  |-> kf.weaknesses \o lf.weaknesses \o sf.weaknesses
                             \o cf.weaknesses,
         suggestions |-> kf.suggestions \o lf.suggestions \o sf.suggestions
                             \o cf.suggestions]

scoreAnswer(text, keywords, ideal) ==
    feedbackOf(scoreLocals(text, keywords, ideal), keywords, ideal)

\* The question_bank row the handler finds by question_text, or none.
NoBankQuestion == [found |-> FALSE]

\* expectedKeywords = bankQuestion?.expected_keywords || []
\* idealLength = bankQuestion?.ideal_answer_length || 100
rubricOf(bankQuestion) ==
    IF bankQuestion = NoBankQuestion
    THEN [expectedKeywords |-> <<>>, idealLength |-> 100]
    ELSE [expectedKeywords |-> bankQuestion.expected_keywords,
          idealLength |-> IF bankQuestion.ideal_answer_length = 0 THEN 100
                          ELSE bankQuestion.ideal_answer_length]

-----------------------------------------------------------------------------
(* The inputs scoreAnswer is applied to.                                   *)

\* Pieces an answer is concatenated from: a word in mixed case, two
\* sentences, two fillers, a transition word with a list marker, and a run of
\* five words.
AnswerChunks ==
    { <<"T", "r", "e", "e", " ">>, <<"h", "a", "s", "h", ".", " ", "o", "k", "!", " ">>, <<"u", "m", ",", " ", "l", "i", "k", "e", " ">>, <<"t", "h", "e", "n", " ", "-", " ">>,
      <<"a", " ", "a", " ", "a", " ", "a", " ", "a", " ">> }

RECURSIVE ChunkTexts(_)
ChunkTexts(n) ==
    IF n = 0 THEN {<<>>}
    ELSE LET shorter == ChunkTexts(n - 1)
         IN  shorter \cup {t \o c : t \in shorter, c \in AnswerChunks}

\* The texts of the chunks, and a text of white space only.
AnswerTexts == ChunkTexts(MaxChunks) \cup { <<" ", "\t", "\n">> }

\* Keywords of a rubric: text[] elements, the empty string among them.
KeywordPool == { <<"t", "r", "e", "e">>, <<"H", "a", "s", "h">>, <<>> }

RECURSIVE KeywordLists(_)
KeywordLists(n) ==
    IF n = 0 THEN {<<>>}
    ELSE LET shorter == KeywordLists(n - 1)
         IN  shorter \cup {Append(l, k) : l \in shorter, k \in KeywordPool}

IdealLengths == {1, 3}

\* The binary-search answer with its rubric.
BinarySearch ==
    [answerText |->
       <<"B", "i", "n", "a", "r", "y", " ", "s", "e", "a", "r", "c", "h", " ",
       "w", "o", "r", "k", "s", " ", "b", "y", " ", "r", "e", "p", "e", "a",
       "t", "e", "d", "l", "y", " ", "d", "i", "v", "i", "d", "i", "n", "g",
       " ", "t", "h", "e", " ", "s", "o", "r", "t", "e", "d", " ", "a", "r",
       "r", "a", "y", " ", "i", "n", " ", "h", "a", "l", "f", ".", " ", "F",
       "i", "r", "s", "t", " ", "c", "o", "m", "p", "a", "r", "e", " ", "t",
       "h", "e", " ", "m", "i", "d", "d", "l", "e", " ", "e", "l", "e", "m",
       "e", "n", "t", ",", " ", "t", "h", "e", "n", " ", "r", "e", "c", "u",
       "r", "s", "e", " ", "i", "n", "t", "o", " ", "t", "h", "e", " ", "c",
       "o", "r", "r", "e", "c", "t", " ", "h", "a", "l", "f", ".", " ", "F",
       "o", "r", " ", "e", "x", "a", "m", "p", "l", "e", ",", " ", "s", "e",
       "a", "r", "c", "h", "i", "n", "g", " ", "f", "o", "r", " ", "7", " ",
       "i", "n", " ", "[", "1", ",", "3", ",", "5", ",", "7", ",", "9", "]",
       " ", "t", "a", "k", "e", "s", " ", "l", "o", "g", "2", "(", "5", ")",
       " ", "s", "t", "e", "p", "s", ".">>,
     expectedKeywords |->
       << <<"b", "i", "n", "a", "r", "y", " ", "s", "e", "a", "r", "c", "h">>, <<"d", "i", "v", "i", "d", "e">>, <<"s", "o", "r", "t", "e", "d">>, <<"l", "o", "g", "a", "r", "i", "t", "h", "m", "i", "c">> >>,
     idealLength |-> 40]

\* One sentence of thirty-one words.
LongSentence ==
    [answerText |->
       <<"a", " ", "a", " ", "a", " ", "a", " ", "a", " ", "a", " ", "a", " ",
       "a", " ", "a", " ", "a", " ", "a", " ", "a", " ", "a", " ", "a", " ",
       "a", " ", "a", " ", "a", " ", "a", " ", "a", " ", "a", " ", "a", " ",
       "a", " ", "a", " ", "a", " ", "a", " ", "a", " ", "a", " ", "a", " ",
       "a", " ", "a", " ", "a", ".">>,
     expectedKeywords |-> << <<"a">>, <<"b">> >>,
     idealLength |-> 20]

\* An answer of three ten-word sentences with a transition word and a list
\* marker, whose rubric it meets in full.
FullMarks ==
    [answerText |->
       <<"F", "i", "r", "s", "t", " ", "a", " ", "a", " ", "a", " ", "a", " ",
       "a", " ", "a", " ", "a", " ", "a", " ", "a", ".", " ", "T", "h", "e",
       "n", " ", "a", " ", "a", " ", "a", " ", "a", " ", "a", " ", "a", " ",
       "a", " ", "-", " ", "a", ".", " ", "S", "o", " ", "a", " ", "a", " ",
       "a", " ", "a", " ", "a", " ", "a", " ", "a", " ", "a", " ", "a", ".">>,
     expectedKeywords |-> << <<"f", "i", "r", "s", "t">> >>,
     idealLength |-> 30]

\* Two of three keywords matched and a length score of 24/7: neither the
\* keyword score nor the weighted total is a whole number of tenths.
Rounded ==
    [answerText |-> <<"T", "r", "e", "e", " ", "h", "a", "s", "h">>,
     expectedKeywords |->
       << <<"t", "r", "e", "e">>, <<"h", "a", "s", "h">>, <<"h", "e", "a", "p">> >>,
     idealLength |-> 7]

\* A ninety-word answer to a question the question bank does not hold.
NotInBank ==
    [answerText |->
       FullMarks.answerText \o <<" ">> \o FullMarks.answerText \o <<" ">>
           \o FullMarks.answerText,
     expectedKeywords |-> rubricOf(NoBankQuestion).expectedKeywords,
     idealLength |-> rubricOf(NoBankQuestion).idealLength]

\* An answer itemised with the bullet character U+2022, named here as one
\* string.
Bulleted ==
    [answerText |->
       <<"U+2022", " ", "T", "r", "e", "e", " ", "U+2022", " ", "h", "a", "s", "h">>,
     expectedKeywords |-> << <<"t", "r", "e", "e">> >>,
     idealLength |-> 3]

\* Three of seven keywords matched: four are missing.
ManyMissing ==
    [answerText |->
       <<"T", "r", "e", "e", " ", "h", "a", "s", "h", ".", " ", "o", "k", "!">>,
     expectedKeywords |->
       << <<"t", "r", "e", "e">>, <<"h", "a", "s", "h">>, <<"o", "k">>,
          <<"h", "e", "a", "p">>, <<"t", "r", "i", "e">>, <<"s", "o", "r", "t">>,
          <<"l", "i", "s", "t">> >>,
     idealLength |-> 3]

ScenarioCases ==
    {BinarySearch, LongSentence, FullMarks, Rounded, NotInBank, Bulleted,
     ManyMissing}

\* The ways six occurrences of "um" are added to a text: six copies of one
\* unit at the start, in the middle or at the end.
UmInsertions ==
    { [unit |-> <<"u", "m", " ">>, at |-> "start"],
      [unit |-> <<" ", "U", "m", ".">>, at |-> "end"],
      [unit |-> <<" ", "u", "m">>, at |-> "middle"] }

AddSixUm(text, ins) ==
    LET six == ins.unit \o ins.unit \o ins.unit \o ins.unit \o ins.unit \o ins.unit
        pos == IF ins.at = "start" THEN 0
               ELSE IF ins.at = "end" THEN Len(text)
               ELSE Len(text) \div 2
    IN  SubSeq(text, 1, pos) \o six \o SubSeq(text, pos + 1, Len(text))

NoFeedback == [score |-> -1]

NoLocals == [wordCount |-> -1]

NoCall == [feedback |-> NoFeedback]

ThisCall ==
    [answerText |-> answerText, expectedKeywords |-> expectedKeywords,
     idealLength |-> idealLength, feedback |-> feedback, locals |-> locals]

-----------------------------------------------------------------------------
(* Voice analytics of analyze-answers, supabase/functions/analyze-answers. *)

\* A null column: a text that is no string of characters.
Null == <<"NULL">>

\* JavaScript truthiness of a text column: neither null nor the empty string.
Truthy(text) == text # Null /\ text # <<>>

voiceFillerWords ==
    << <<"u", "m">>, <<"u", "h">>, <<"l", "i", "k", "e">>, <<"y", "o", "u", " ", "k", "n", "o", "w">>, <<"b", "a", "s", "i", "c", "a", "l", "l", "y">>, <<"a", "c", "t", "u", "a", "l", "l", "y">>,
       <<"l", "i", "t", "e", "r", "a", "l", "l", "y">>, <<"s", "o">>, <<"w", "e", "l", "l">> >>

\* transcript.split(/\s+/).filter(Boolean)
transcriptWords(transcript) ==
    SelectSeq(splitRegex(transcript, WhiteSpace), LAMBDA w : Len(w) > 0)

\* Variant: only the punctuation at the end of the token is removed.
RECURSIVE stripTrailingPunctuation(_)
stripTrailingPunctuation(w) ==
    IF w # <<>> /\ toLowerCaseChar(w[Len(w)]) \in {".", ",", "!", "?"}
    THEN stripTrailingPunctuation(SubSeq(w, 1, Len(w) - 1))
    ELSE toLowerCase(w)

\* w.toLowerCase().replace(/[.,!?]/g, '')
stripPunctuation(w) ==
    SelectSeq(toLowerCase(w), LAMBDA c : c \notin {".", ",", "!", "?"})

\* Variant: the token compared without lower-casing it.
isFillerWordCaseSensitive(w) ==
    \E i \in 1..Len(voiceFillerWords) :
        voiceFillerWords[i] = SelectSeq(w, LAMBDA c : c \notin {".", ",", "!", "?"})

isFillerWord(w) ==
    \E i \in 1..Len(voiceFillerWords) : voiceFillerWords[i] = stripPunctuation(w)

\* Variant: a token 'you' followed by a token 'know' counts as well.
fillerWordCountPhrases(ws) ==
    Len(SelectSeq(ws, isFillerWord))
        + Cardinality({i \in 1..(Len(ws) - 1) :
                          /\ stripPunctuation(ws[i]) = <<"y", "o", "u">>
                          /\ stripPunctuation(ws[i + 1]) = <<"k", "n", "o", "w">>})

fillerWordCount(ws) == Len(SelectSeq(ws, isFillerWord))

wordsPerMinute(wc) == wc * 2

Abs(n) == IF n >= 0 THEN n ELSE -n

FMax0(p) == IF p[1] >= 0 THEN p ELSE <<0, 1>>

\* Math.max(0, 100 - Math.abs(wordsPerMinute - 135) * 0.5)
rateScore(wpm) == FMax0(<<200 - Abs(wpm - 135), 2>>)

\* fillerWordCount / Math.max(wordCount, 1)
fillerRatio(fillers, wc) == <<fillers, Max(wc, 1)>>

\* Math.max(0, 100 - fillerRatio * 500)
fillerScore(ratio) == FMax0(<<100 * ratio[2] - 500 * ratio[1], ratio[2]>>)

\* Math.round(rateScore * 0.4 + fillerScore * 0.3 + feedback.clarity * 10 * 0.3),
\* the clarity given in tenths.
confidenceScore(rs, fs, clarity) ==
    MathRound(Plus(Plus(Times(rs, <<4, 10>>), Times(fs, <<3, 10>>)),
                   Times(<<clarity, 10>>, <<3, 1>>)))

\* Variant: the transcript tested against null only, the empty string analysed.
voiceAnalyticsNotNull(transcript, clarity) ==
    IF transcript # Null
    THEN LET ws == transcriptWords(transcript)
             wc == Len(ws)
             fc == fillerWordCount(ws)
         IN  [confidenceScore |->
                  confidenceScore(rateScore(wordsPerMinute(wc)),
                                  fillerScore(fillerRatio(fc, wc)), clarity),
              wordsPerMinute |-> wordsPerMinute(wc),
              fillerWordCount |-> fc]
    ELSE [confidenceScore |-> 70, wordsPerMinute |-> 0, fillerWordCount |-> 0]

\* The voice analytics of one answer: the defaults, replaced when the answer
\* has a transcript.
voiceAnalytics(transcript, clarity) ==
    IF Truthy(transcript)
    THEN LET ws == transcriptWords(transcript)
             wc == Len(ws)
             fc == fillerWordCount(ws)
         IN  [confidenceScore |->
                  confidenceScore(rateScore(wordsPerMinute(wc)),
                                  fillerScore(fillerRatio(fc, wc)), clarity),
              wordsPerMinute |-> wordsPerMinute(wc),
              fillerWordCount |-> fc]
    ELSE [confidenceScore |-> 70, wordsPerMinute |-> 0, fillerWordCount |-> 0]

\* Pieces a transcript is concatenated from.
TranscriptChunks ==
    { <<"u", "m", " ">>, <<"U", "h", ",", " ">>, <<"w", "e", "l", "l", ".", " ">>, <<"y", "o", "u", " ", "k", "n", "o", "w", " ">>, <<"c", "o", "d", "e", " ">> }

RECURSIVE ChunkTranscripts(_)
ChunkTranscripts(n) ==
    IF n = 0 THEN {<<>>}
    ELSE LET shorter == ChunkTranscripts(n - 1)
         IN  shorter \cup {t \o c : t \in shorter, c \in TranscriptChunks}

Twice(u) == u \o u

Times32(u) == Twice(Twice(Twice(Twice(Twice(u)))))

\* Transcripts of 67 words of which three are filler tokens.
SixtySevenWords ==
    { <<"u", "m", " ", "u", "h", " ", "l", "i", "k", "e", " ">> \o Times32( <<"p", "l", "a", "i", "n", " ", "w", "o", "r", "d", "s", " ">> ),
      Times32( <<"I", " ", "m", "e", "a", "n", " ">> ) \o <<"U", "m", ",", " ", "A", "C", "T", "U", "A", "L", "L", "Y", "!", " ",
       "s", "o", "?", " ">>,
      <<"W", "e", "l", "l", ".", " ", "b", "a", "s", "i", "c", "a", "l", "l",
       "y", ",", " ", "l", "i", "t", "e", "r", "a", "l", "l", "y", " ">> \o Times32( <<"y", "o", "u", " ", "k", "n", "o", "w", " ">> ) }

\* A transcript with punctuation before, inside and after its tokens.
PunctuatedTranscript ==
    <<"u", ".", "m", " ", ",", "s", "o", " ", "W", "e", "l", "l", "!", "?", " ",
      "y", "o", "u", " ", "k", "n", "o", "w", " ", "c", "o", "d", "e", ".">>

\* A transcript of 67 words none of which is a filler token.
SixtySevenPlainWords ==
    Times32(<<"p", "l", "a", "i", "n", " ", "w", "o", "r", "d", "s", " ">>)
        \o <<"t", "o", " ", "t", "h", "e", " ", "e", "n", "d">>

Transcripts ==
    {Null, <<" ">>, PunctuatedTranscript, SixtySevenPlainWords}
        \cup ChunkTranscripts(MaxTokens) \cup SixtySevenWords

AnswerTextsTyped == {Null, <<>>, <<"I", " ", "t", "y", "p", "e", "d", " ", "s", "o", ".">> }

\* feedback.clarity of the AI reply, in tenths: the prompt asks for 0-10 and
\* the reply is not validated.
ClarityValues == {-100, 0, 50, 80, 100, 110, 400}

AiReplies ==
    {[kind |-> "gateway error", feedback |-> NoFeedback],
     [kind |-> "unparsable", feedback |-> NoFeedback]}
    \cup {[kind |-> "feedback", feedback |-> [score |-> 70, clarity |-> c]] :
             c \in ClarityValues}

NoReply == [kind |-> "none", feedback |-> NoFeedback]

Row(text, transcript) ==
    [id |-> 1, answer_text |-> text, transcript |-> transcript,
     ai_score |-> "NULL", ai_feedback |-> "NULL", confidence_score |-> "NULL",
     words_per_minute |-> "NULL", filler_word_count |-> "NULL"]

\* question.interview_answers?.[0] is undefined
NoRow == [Row(Null, Null) EXCEPT !.id = 0]

-----------------------------------------------------------------------------
(* The serve handler of score-answer: the rows it reads and writes.        *)

\* question_bank, by question_text.
QuestionBank ==
    [text \in {"Explain trees"} |->
        [expected_keywords |-> << <<"t", "r", "e", "e">>, <<"H", "a", "s", "h">> >>,
         ideal_answer_length |-> 3]]

\* .from('question_bank').select('*').eq('question_text', ...).maybeSingle()
bankQuestionOf(question_text) ==
    IF question_text \in DOMAIN QuestionBank THEN QuestionBank[question_text]
    ELSE NoBankQuestion

Question(text, rows) == [question_text |-> text, interview_answers |-> rows]

\* The questions of an interview: unanswered; answered in text; answered by
\* voice, answer_text null or empty; a blank answer_text beside a transcript;
\* neither text nor transcript; a question the bank does not hold; two answers.
InterviewQuestions ==
    { Question("Explain trees", <<>>),
      Question("Explain trees",
               <<Row(<<"T", "r", "e", "e", " ", "h", "a", "s", "h", ".", " ", "o", "k", "!">>, Null)>>),
      Question("Explain trees",
               <<Row(Null, <<"u", "m", ",", " ", "l", "i", "k", "e", " ", "T", "r", "e", "e">>)>>),
      Question("Explain trees", <<Row(<<>>, <<"h", "a", "s", "h", ".">>)>>),
      Question("Explain trees", <<Row(<<" ", "\t", "\n">>, <<"T", "r", "e", "e">>)>>),
      Question("Explain trees", <<Row(<<>>, Null)>>),
      Question("Explain heaps", <<Row(<<"T", "r", "e", "e">>, Null)>>),
      Question("Explain trees",
               <<Row(<<"T", "r", "e", "e">>, Null), Row(<<"h", "a", "s", "h", ".">>, Null)>>) }

RECURSIVE QuestionLists(_)
QuestionLists(n) ==
    IF n = 0 THEN {<<>>}
    ELSE LET shorter == QuestionLists(n - 1)
         IN  shorter \cup {Append(l, q) : l \in shorter, q \in InterviewQuestions}

InterviewRow(status, overall_score) ==
    [status |-> status, overall_score |-> overall_score]

\* No user_progress row of the interview's user.
NoProgress == [found |-> FALSE]

\* user_progress row of the user.
ProgressRow(used_question_ids, total_interviews, total_score) ==
    [found |-> TRUE, used_question_ids |-> used_question_ids,
     total_interviews |-> total_interviews, total_score |-> total_score]

\* user_progress rows when an interview is scored: total_score, a number in
\* tenths, of the interviews scored before.
ProgressRows ==
    {NoProgress, ProgressRow(<<1, 2, 3, 4, 5>>, 1, <<0, 1>>),
     ProgressRow(<<0, 1, 2, 3, 4, 5>>, 2, <<74, 1>>)}

\* answer.answer_text || answer.transcript || ''
answerTextOf(answer) ==
    IF Truthy(answer.answer_text) THEN answer.answer_text
    ELSE IF Truthy(answer.transcript) THEN answer.transcript
    ELSE <<>>

\* Variant: the text is tested without trim().
isEmptyText(text) == text = <<>>

\* !answerText.trim()
isBlank(text) == trim(text) = <<>>

\* answeredCount > 0 ? totalScore / answeredCount : 0
overallScoreOf(total, count) == IF count > 0 THEN <<total, count>> ELSE <<0, 1>>

\* The users of the application; the interview belongs to the first.
Users == {"owner", "other"}

InterviewOwner == "owner"

\* No authenticated user: no bearer token, or one getUser rejects.
NoUser == "none"

\* The handler between two requests.
HandlerIdle ==
    /\ questions = <<>>
    /\ interviewRow = InterviewRow("in_progress", "NULL")
    /\ progress = NoProgress
    /\ handlerPc = "idle"
    /\ qIndex = 0
    /\ handlerTotal = 0
    /\ answeredCount = 0
    /\ requests = 0
    /\ caller = NoUser

-----------------------------------------------------------------------------
(* The serve handler of start-interview: the rows it reads and writes.     *)

MaxBankQuestions == 6   \* question_bank rows of the role and difficulty asked for

\* The two requests of one user that may overlap.
StartRequests == {"first", "second"}

\* question_bank: the rows 1..MaxBankQuestions of one role and difficulty and
\* row 0 of another role, in the order the select returns them.
BankRows ==
    [i \in 1..(MaxBankQuestions + 1) |->
        [id |-> i - 1,
         role |-> IF i = 1 THEN "backend" ELSE "frontend",
         difficulty |-> "easy",
         question_text |-> <<"question", i - 1>>]]

\* { role, difficulty } of the request body.
RolesAsked ==
    {[role |-> "frontend", difficulty |-> "easy"],
     [role |-> "backend", difficulty |-> "easy"],
     [role |-> "frontend", difficulty |-> "hard"]}

\* .from('question_bank').select('*').eq('role', role).eq('difficulty', difficulty)
allQuestionsOf(asked) ==
    SelectSeq(BankRows,
              LAMBDA q : q.role = asked.role /\ q.difficulty = asked.difficulty)

\* usedQuestionIds.includes(id)
includesId(ids, id) == \E i \in DOMAIN ids : ids[i] = id

\* Variant: the used questions are not filtered out.
availableUnfiltered(allQuestions, usedQuestionIds) == allQuestions

\* allQuestions?.filter(q => !usedQuestionIds.includes(q.id)) || []
availableOf(allQuestions, usedQuestionIds) ==
    SelectSeq(allQuestions, LAMBDA q : ~includesId(usedQuestionIds, q.id))

\* usedQuestionIds.filter(id => !usedForRoleDifficulty.includes(id))
resetUsedIds(usedQuestionIds, allQuestions) ==
    SelectSeq(usedQuestionIds,
              LAMBDA id : \A i \in DOMAIN allQuestions : allQuestions[i].id # id)

\* Orders that sort(() => Math.random() - 0.5) can leave the list in.
ShuffleKinds == {"kept", "reversed", "rotated"}

shuffle(list, kind) ==
    CASE kind = "kept" -> list
      [] kind = "reversed" -> [i \in DOMAIN list |-> list[Len(list) + 1 - i]]
      [] kind = "rotated" -> [i \in DOMAIN list |-> list[(i % Len(list)) + 1]]

\* shuffled.slice(0, 5)
selectedOf(shuffled) == SubSeq(shuffled, 1, Min(5, Len(shuffled)))

\* selectedQuestions.map((q, index) => ({ interview_id, question_number: index + 1,
\* question_text })), index counted from 0 in the source and from 1 here.
questionsToInsert(selectedQuestions, interviewId) ==
    { [interview_id |-> interviewId, question_number |-> index,
       question_text |-> selectedQuestions[index].question_text] :
      index \in DOMAIN selectedQuestions }

\* selectedQuestions.map(q => q.id)
idsOf(selectedQuestions) == [i \in DOMAIN selectedQuestions |-> selectedQuestions[i].id]

\* used_question_ids and total_interviews a user can have before a request: no
\* interview yet; one interview of a role that had one question then; the rows
\* after a first interview of five questions, alone or after one of the other
\* role.
StartProgressRows ==
    {NoProgress,
     ProgressRow(<<>>, 0, <<0, 1>>),
     ProgressRow(<<0>>, 1, <<0, 1>>),
     ProgressRow(<<1>>, 1, <<0, 1>>),
     ProgressRow(<<1, 2, 3, 4, 5>>, 1, <<0, 1>>),
     ProgressRow(<<0, 1, 2, 3, 4, 5>>, 2, <<74, 1>>)}

\* A request that has not arrived.
IdleStart ==
    [pc |-> "idle", asked |-> [role |-> "none", difficulty |-> "none"],
     usedQuestionIds |-> <<>>, total_interviews |-> 0, created |-> FALSE,
     availableQuestions |-> <<>>, reset |-> FALSE, selectedQuestions |-> <<>>]

\* No start-interview request.
StartIdle ==
    /\ startReq = [r \in StartRequests |-> IdleStart]
    /\ interviewQuestions = {}

-----------------------------------------------------------------------------
(* The InterviewSession page: its state and the interview_answers rows.    *)

MaxSessionQuestions == 3   \* questions of the interview shown by the page

\* Indices of questions, counted from 0 as currentIndex is.
SessionIndices == 0..(MaxSessionQuestions - 1)

\* Texts typed into the answer box, or transcribed from a recording.
SessionTexts == {<<>>, <<" ">>, <<"a">>, <<"b", " ">>}

\* answers[question.id] is undefined; no interview_answers row of the question.
NoAnswer == [found |-> FALSE]

Answer(answer_text) == [found |-> TRUE, answer_text |-> answer_text]

\* answers[questions[index]?.id]?.answer_text || ''
savedTextOf(answerMap, index) ==
    IF index \in DOMAIN answerMap /\ answerMap[index].found
    THEN answerMap[index].answer_text
    ELSE <<>>

\* The page before it is opened.
SessionIdle ==
    /\ currentIndex = 0
    /\ textAnswer = <<>>
    /\ answers = [i \in SessionIndices |-> NoAnswer]
    /\ answerRows = [i \in SessionIndices |-> NoAnswer]
    /\ answerMode = "text"

-----------------------------------------------------------------------------
(* Calls of scoreAnswer.                                                   *)

ScoreInit ==
    /\ \/ /\ answerText \in AnswerTexts
          /\ expectedKeywords \in KeywordLists(MaxKeywords)
          /\ idealLength \in IdealLengths
       \/ \E case \in ScenarioCases :
             /\ answerText = case.answerText
             /\ expectedKeywords = case.expectedKeywords
             /\ idealLength = case.idealLength
    /\ feedback = NoFeedback
    /\ locals = NoLocals
    /\ lastCall = NoCall
    /\ callKind = "first"

Init ==
    /\ ScoreInit
    /\ answerRow = NoRow
    /\ aiReply = NoReply
    /\ voicePc = "idle"
    /\ HandlerIdle
    /\ StartIdle
    /\ SessionIdle

\* scoreAnswer(answerText, expectedKeywords, idealLength)
Score ==
    /\ feedback = NoFeedback
    /\ locals' = scoreLocals(answerText, expectedKeywords, idealLength)
    /\ feedback' = feedbackOf(locals', expectedKeywords, idealLength)
    /\ UNCHANGED <<answerText, expectedKeywords, idealLength, lastCall, callKind>>
    /\ UNCHANGED voiceVars
    /\ UNCHANGED handlerVars
    /\ UNCHANGED startVars
    /\ UNCHANGED sessionVars

\* A second call with the same answer and ideal length and a keyword list of
\* the same size, one keyword replaced.
ScoreOtherKeywords ==
    /\ feedback # NoFeedback
    /\ lastCall = NoCall
    /\ \E i \in 1..Len(expectedKeywords), kw \in KeywordPool :
          /\ kw # expectedKeywords[i]
          /\ expectedKeywords' = [expectedKeywords EXCEPT ![i] = kw]
          /\ locals' = scoreLocals(answerText, expectedKeywords', idealLength)
          /\ feedback' = feedbackOf(locals', expectedKeywords', idealLength)
    /\ lastCall' = ThisCall
    /\ callKind' = "keywords"
    /\ UNCHANGED <<answerText, idealLength>>
    /\ UNCHANGED voiceVars
    /\ UNCHANGED handlerVars
    /\ UNCHANGED startVars
    /\ UNCHANGED sessionVars

\* A second call with the same rubric and the answer, which holds no filler,
\* with six "um" added.
ScoreWithSixUm ==
    /\ feedback # NoFeedback
    /\ lastCall = NoCall
    /\ locals.fillerCount = 0
    /\ \E ins \in UmInsertions :
          /\ answerText' = AddSixUm(answerText, ins)
          /\ locals' = scoreLocals(answerText', expectedKeywords, idealLength)
          /\ feedback' = feedbackOf(locals', expectedKeywords, idealLength)
    /\ lastCall' = ThisCall
    /\ callKind' = "um"
    /\ UNCHANGED <<expectedKeywords, idealLength>>
    /\ UNCHANGED voiceVars
    /\ UNCHANGED handlerVars
    /\ UNCHANGED startVars
    /\ UNCHANGED sessionVars

Next == Score \/ ScoreOtherKeywords \/ ScoreWithSixUm

Spec == Init /\ [][Next]_vars

-----------------------------------------------------------------------------
(* One pass of the loop of analyze-answers over a question's answer.       *)

VoiceInit ==
    /\ answerRow \in {NoRow} \cup {Row(text, tr) : text \in AnswerTextsTyped,
                                                   tr \in Transcripts}
    /\ aiReply \in AiReplies
    /\ voicePc = "fetched"
    /\ HandlerIdle
    /\ StartIdle
    /\ SessionIdle
    /\ answerText = <<>>
    /\ expectedKeywords = <<>>
    /\ idealLength = 100
    /\ feedback = NoFeedback
    /\ locals = NoLocals
    /\ lastCall = NoCall
    /\ callKind = "first"

hasAnswer ==
    /\ answerRow # NoRow
    /\ Truthy(answerRow.answer_text) \/ Truthy(answerRow.transcript)

\* if (!answer || (!answer.answer_text && !answer.transcript)) continue;
SkipAnswer ==
    /\ voicePc = "fetched"
    /\ ~hasAnswer
    /\ voicePc' = "skipped"
    /\ UNCHANGED <<answerRow, aiReply>>
    /\ UNCHANGED scoreVars
    /\ UNCHANGED handlerVars
    /\ UNCHANGED startVars
    /\ UNCHANGED sessionVars

\* if (!response.ok) continue;
GatewayError ==
    /\ voicePc = "fetched"
    /\ hasAnswer
    /\ aiReply.kind = "gateway error"
    /\ voicePc' = "skipped"
    /\ UNCHANGED <<answerRow, aiReply>>
    /\ UNCHANGED scoreVars
    /\ UNCHANGED handlerVars
    /\ UNCHANGED startVars
    /\ UNCHANGED sessionVars

\* JSON.parse(feedbackText) throws: continue
ParseError ==
    /\ voicePc = "fetched"
    /\ hasAnswer
    /\ aiReply.kind = "unparsable"
    /\ voicePc' = "skipped"
    /\ UNCHANGED <<answerRow, aiReply>>
    /\ UNCHANGED scoreVars
    /\ UNCHANGED handlerVars
    /\ UNCHANGED startVars
    /\ UNCHANGED sessionVars

\* The voice analytics and the update of the interview_answers row.
AnalyzeAnswer ==
    /\ voicePc = "fetched"
    /\ hasAnswer
    /\ aiReply.kind = "feedback"
    /\ LET va == voiceAnalytics(answerRow.transcript, aiReply.feedback.clarity)
       IN  answerRow' = [answerRow EXCEPT
                            !.ai_score = aiReply.feedback.score,
                            !.ai_feedback = aiReply.feedback,
                            !.confidence_score = va.confidenceScore,
                            !.words_per_minute = va.wordsPerMinute,
                            !.filler_word_count = va.fillerWordCount]
    /\ voicePc' = "updated"
    /\ UNCHANGED aiReply
    /\ UNCHANGED scoreVars
    /\ UNCHANGED handlerVars
    /\ UNCHANGED startVars
    /\ UNCHANGED sessionVars

VoiceNext == SkipAnswer \/ GatewayError \/ ParseError \/ AnalyzeAnswer

SpecVoice == VoiceInit /\ [][VoiceNext]_vars

-----------------------------------------------------------------------------
(* The serve handler of score-answer, one interview.                       *)

InterviewInit ==
    /\ questions \in QuestionLists(MaxQuestions)
    /\ progress \in ProgressRows
    /\ interviewRow = InterviewRow("in_progress", "NULL")
    /\ handlerPc = "idle"
    /\ qIndex = 0
    /\ handlerTotal = 0
    /\ answeredCount = 0
    /\ requests = 0
    /\ caller = NoUser
    /\ StartIdle
    /\ SessionIdle
    /\ answerText = <<>>
    /\ expectedKeywords = <<>>
    /\ idealLength = 100
    /\ feedback = NoFeedback
    /\ locals = NoLocals
    /\ lastCall = NoCall
    /\ callKind = "first"
    /\ answerRow = NoRow
    /\ aiReply = NoReply
    /\ voicePc = "idle"

\* A request without a bearer token, or with one getUser rejects: 401.
RejectRequest ==
    /\ handlerPc = "idle"
    /\ requests < MaxRequests
    /\ requests' = requests + 1
    /\ caller' = NoUser
    /\ UNCHANGED <<questions, interviewRow, progress, handlerPc, qIndex,
                   handlerTotal, answeredCount>>
    /\ UNCHANGED scoreVars
    /\ UNCHANGED voiceVars
    /\ UNCHANGED startVars
    /\ UNCHANGED sessionVars

\* An authenticated request: the interview is fetched with its questions and
\* answers, totalScore = 0, answeredCount = 0.
StartRequest ==
    /\ handlerPc = "idle"
    /\ requests < MaxRequests
    /\ requests' = requests + 1
    /\ caller' \in Users
    /\ handlerPc' = "loop"
    /\ qIndex' = 1
    /\ handlerTotal' = 0
    /\ answeredCount' = 0
    /\ UNCHANGED <<questions, interviewRow, progress>>
    /\ UNCHANGED scoreVars
    /\ UNCHANGED voiceVars
    /\ UNCHANGED startVars
    /\ UNCHANGED sessionVars

\* The loop's question has a first answer whose text is not blank.
toScore(question) ==
    /\ Len(question.interview_answers) > 0
    /\ ~isBlank(answerTextOf(question.interview_answers[1]))

\* if (!answer) continue; if (!answerText.trim()) continue;
SkipQuestion ==
    /\ handlerPc = "loop"
    /\ qIndex <= Len(questions)
    /\ ~toScore(questions[qIndex])
    /\ qIndex' = qIndex + 1
    /\ UNCHANGED <<questions, interviewRow, progress, handlerPc, handlerTotal,
                   answeredCount, requests, caller>>
    /\ UNCHANGED scoreVars
    /\ UNCHANGED voiceVars
    /\ UNCHANGED startVars
    /\ UNCHANGED sessionVars

\* The rubric is looked up, the answer scored, its row updated and the score
\* added to totalScore.
ScoreQuestion ==
    /\ handlerPc = "loop"
    /\ qIndex <= Len(questions)
    /\ toScore(questions[qIndex])
    /\ LET question == questions[qIndex]
           answer == question.interview_answers[1]
           rubric == rubricOf(bankQuestionOf(question.question_text))
           fb == scoreAnswer(answerTextOf(answer), rubric.expectedKeywords,
                             rubric.idealLength)
       IN  /\ questions' =
                 [questions EXCEPT ![qIndex].interview_answers[1] =
                     [answer EXCEPT !.ai_score = fb.score, !.ai_feedback = fb]]
           /\ handlerTotal' = handlerTotal + fb.score
    /\ answeredCount' = answeredCount + 1
    /\ qIndex' = qIndex + 1
    /\ UNCHANGED <<interviewRow, progress, handlerPc, requests, caller>>
    /\ UNCHANGED scoreVars
    /\ UNCHANGED voiceVars
    /\ UNCHANGED startVars
    /\ UNCHANGED sessionVars

\* After the loop: the interview is updated with the overall score and the
\* status 'completed', and the overall score is added to the total_score of
\* the user_progress row, if there is one.
CompleteInterview ==
    /\ handlerPc = "loop"
    /\ qIndex > Len(questions)
    /\ LET overallScore == overallScoreOf(handlerTotal, answeredCount)
       IN  /\ interviewRow' = InterviewRow("completed", overallScore)
           /\ progress' =
                 IF progress.found
                 THEN [progress EXCEPT !.total_score = Plus(@, overallScore)]
                 ELSE progress
    /\ handlerPc' = "idle"
    /\ UNCHANGED <<questions, qIndex, handlerTotal, answeredCount, requests, caller>>
    /\ UNCHANGED scoreVars
    /\ UNCHANGED voiceVars
    /\ UNCHANGED startVars
    /\ UNCHANGED sessionVars

InterviewNext ==
    \/ RejectRequest
    \/ StartRequest
    \/ SkipQuestion
    \/ ScoreQuestion
    \/ CompleteInterview

SpecInterview == InterviewInit /\ [][InterviewNext]_vars

-----------------------------------------------------------------------------
(* Properties of scoreAnswer, checked under Spec.                          *)

Scored == feedback # NoFeedback

Has(seq, x) == \E i \in 1..Len(seq) : seq[i] = x

IsCase(case) ==
    /\ answerText = case.answerText
    /\ expectedKeywords = case.expectedKeywords
    /\ idealLength = case.idealLength

\* C1: score, technical_accuracy, clarity and structure of every returned
\* Feedback lie in [0, 10] (0..100 in tenths), for every answer, keyword list
\* and positive ideal length.
ScoresInRange ==
    Scored =>
        /\ feedback.score \in 0..100
        /\ feedback.technical_accuracy \in 0..100
        /\ feedback.clarity \in 0..100
        /\ feedback.structure \in 0..100

\* C1 witness: a call whose four numbers all reach the upper end of the range.
FullMarksScored ==
    /\ Scored
    /\ feedback.score = 100
    /\ feedback.technical_accuracy = 100
    /\ feedback.clarity = 100
    /\ feedback.structure = 100

\* C2 as stated: in the binary-search scenario three of the four keywords are
\* matched, only "logarithmic" is absent, keywordRatio is 0.75 and
\* technical_accuracy is 7.5.
BinarySearchMatchesThree ==
    (Scored /\ IsCase(BinarySearch)) =>
        /\ Len(locals.matchedKeywords) = 3
        /\ ~Has(locals.matchedKeywords, BinarySearch.expectedKeywords[4])
        /\ 4 * locals.keywordRatio[1] = 3 * locals.keywordRatio[2]
        /\ feedback.technical_accuracy = 75

\* C2 amended: in the binary-search scenario exactly two of the four keywords
\* are matched, "binary search" and "sorted" ("divide" is no substring of the
\* answer, which says "dividing", and "logarithmic" is absent), so keywordRatio
\* is 0.5 and technical_accuracy is 5.0.
BinarySearchMatchesTwo ==
    (Scored /\ IsCase(BinarySearch)) =>
        /\ locals.matchedKeywords = << BinarySearch.expectedKeywords[1],
                                       BinarySearch.expectedKeywords[3] >>
        /\ 2 * locals.keywordRatio[1] = locals.keywordRatio[2]
        /\ feedback.technical_accuracy = 50

\* C2 witness: the binary-search scenario has been scored.
BinarySearchScored ==
    /\ Scored
    /\ IsCase(BinarySearch)
    /\ Len(locals.matchedKeywords) = 2

DivideLogarithmic ==
    <<"d", "i", "v", "i", "d", "e", ",", " ", "l", "o", "g", "a", "r", "i",
       "t", "h", "m", "i", "c">>

\* C3 as stated: in the binary-search scenario the score is between 8.2 and
\* 8.6, the strengths include the key-concept and the good-length strength,
\* and there is no weakness.
BinarySearchScoreHigh ==
    (Scored /\ IsCase(BinarySearch)) =>
        /\ feedback.score \in 82..86
        /\ Has(feedback.strengths, "Covered most of the key technical concepts")
        /\ Has(feedback.strengths, "Good answer length with appropriate detail")
        /\ feedback.weaknesses = <<>>

\* C3 amended: in the binary-search scenario the score is 7.6; the strengths
\* are the good-length, the well-structured and the clear-explanation strength
\* and not the key-concept strength; the one weakness is 'Some important
\* concepts were missing', with the suggestion to discuss "divide" and
\* "logarithmic".
BinarySearchFeedback ==
    (Scored /\ IsCase(BinarySearch)) =>
        /\ feedback.score = 76
        /\ feedback.strengths =
              << "Good answer length with appropriate detail",
                 "Well-structured response with clear organization",
                 "Clear and easy to understand explanation" >>
        /\ feedback.weaknesses = << "Some important concepts were missing" >>
        /\ feedback.suggestions =
              << [text |-> "Consider discussing: ",
                  list |-> DivideLogarithmic] >>

\* C3 witness: the binary-search scenario scored, 32 words in three sentences.
BinarySearchFeedbackReached ==
    /\ Scored
    /\ IsCase(BinarySearch)
    /\ locals.wordCount = 32
    /\ locals.sentenceCount = 3
    /\ feedback.structure = 80

EmptyAnswer == answerOf(answerText) = <<>>

EmptyAnswerFloor ==
    /\ locals.wordCount = 0
    /\ locals.lengthScore[1] = 0
    /\ feedback.structure = 50
    /\ feedback.clarity = 90

\* C5 as stated: an empty or white-space answer is scored with wordCount 0,
\* technical_accuracy 0, a length component of 0, structure 5 (the base) and
\* clarity 9 (base 7, the short-sentence bonus and the no-filler bonus).
EmptyAnswerScoredZero ==
    (Scored /\ EmptyAnswer) =>
        /\ EmptyAnswerFloor
        /\ feedback.technical_accuracy = 0

\* C5 amended: an empty or white-space answer is scored with wordCount 0, a
\* length component of 0, structure 5 and clarity 9, and with
\* technical_accuracy 0 when no expected keyword is the empty string (the
\* empty string is a substring of the empty answer and counts as matched).
EmptyAnswerScoredFloor ==
    (Scored /\ EmptyAnswer) =>
        /\ EmptyAnswerFloor
        /\ (~Has(expectedKeywords, <<>>) => feedback.technical_accuracy = 0)

\* C5 witness: a white-space answer scored against a keyword that is not empty.
BlankAnswerScored ==
    /\ Scored
    /\ EmptyAnswer
    /\ answerText # <<>>
    /\ expectedKeywords # <<>>
    /\ ~Has(expectedKeywords, <<>>)
    /\ feedback.score = 28

\* C6: of two calls with the same answer, the same ideal length and keyword
\* lists of the same size, the one that matches at least as many keywords has
\* a technical_accuracy and a score at least as large.
KeywordMonotone ==
    (/\ callKind = "keywords"
     /\ answerText = lastCall.answerText
     /\ idealLength = lastCall.idealLength
     /\ Len(expectedKeywords) = Len(lastCall.expectedKeywords)
     /\ Len(locals.matchedKeywords) >= Len(lastCall.locals.matchedKeywords))
    => /\ feedback.technical_accuracy >= lastCall.feedback.technical_accuracy
       /\ feedback.score >= lastCall.feedback.score

\* C6 witness: a second call that matches more keywords and scores higher.
MoreKeywordsMatched ==
    /\ callKind = "keywords"
    /\ Len(locals.matchedKeywords) > Len(lastCall.locals.matchedKeywords)
    /\ feedback.score > lastCall.feedback.score

\* C8: an answer that holds no filler gets a strictly higher clarity than the
\* same answer with six "um" added.
SixUmLowerClarity ==
    (callKind = "um" /\ lastCall.locals.fillerCount = 0)
    => feedback.clarity < lastCall.feedback.clarity

\* C8 witness: a filler-free answer and the answer with six "um" added, both
\* scored.
SixUmScored ==
    /\ callKind = "um"
    /\ lastCall.locals.fillerCount = 0
    /\ locals.fillerCount >= 6
    /\ lastCall.locals.wordCount > 0

-----------------------------------------------------------------------------
(* Properties of the voice analytics, checked under SpecVoice.             *)

Analysed == voicePc = "updated"

\* C4 as stated: the confidence score computed and stored is an integer in
\* [0, 100], whatever the transcript and whatever clarity the feedback gives.
ConfidenceInRange ==
    Analysed => answerRow.confidence_score \in 0..100

\* C9: a transcript of 67 words of which three are filler tokens, with clarity
\* 8, gives wordsPerMinute 134, fillerWordCount 3 and confidenceScore 87.
VoiceScenario ==
    (/\ Analysed
     /\ answerRow.transcript \in SixtySevenWords
     /\ aiReply.feedback.clarity = 80)
    => /\ answerRow.words_per_minute = 134
       /\ answerRow.filler_word_count = 3
       /\ answerRow.confidence_score = 87

\* C9 witness: a 67-word transcript with mixed-case, punctuated fillers
\* analysed with clarity 8.
VoiceScenarioAnalysed ==
    /\ Analysed
    /\ answerRow.transcript \in SixtySevenWords
    /\ includes(answerRow.transcript, <<"A", "C", "T", "U", "A", "L", "L", "Y", "!">> )
    /\ aiReply.feedback.clarity = 80

\* C10: an analysed answer without a transcript is stored with confidenceScore
\* 70, wordsPerMinute 0 and fillerWordCount 0, whatever its text and feedback.
NoTranscriptDefaults ==
    (Analysed /\ ~Truthy(answerRow.transcript))
    => /\ answerRow.confidence_score = 70
       /\ answerRow.words_per_minute = 0
       /\ answerRow.filler_word_count = 0

\* C10 witness: a typed answer whose transcript is the empty string, analysed
\* with a clarity other than the one that would give 70.
NoTranscriptAnalysed ==
    /\ Analysed
    /\ answerRow.transcript = <<>>
    /\ Truthy(answerRow.answer_text)
    /\ aiReply.feedback.clarity = 100



-----------------------------------------------------------------------------
(* Further properties of scoreAnswer, checked under Spec.                  *)

\* The whole number of tenths nearest to n/d, the upper one of two equally
\* near.
NearestTenth(n, d) ==
    CHOOSE t \in 0..100 : (2 * t - 1) * d <= 20 * n /\ 20 * n < (2 * t + 1) * d

\* C11: the returned score is keywordScore*0.4 + lengthScore*0.2 +
\* structureScore*0.2 + clarityScore*0.2 rounded to one decimal place, and
\* technical_accuracy, clarity and structure are keywordScore (ten times the
\* keyword ratio), clarityScore and structureScore rounded to one decimal
\* place.
ScoreIsWeightedSum ==
    Scored =>
        LET ks == locals.keywordScore
            ls == locals.lengthScore
            ss == locals.structureScore
            cs == locals.clarityScore
            kr == locals.keywordRatio
        IN  /\ feedback.score =
                  NearestTenth(4 * ks[1] * ls[2] + 2 * ls[1] * ks[2]
                                   + 2 * (ss + cs) * ks[2] * ls[2],
                               10 * ks[2] * ls[2])
            /\ ks[1] * kr[2] = 10 * kr[1] * ks[2]
            /\ feedback.technical_accuracy = NearestTenth(ks[1], ks[2])
            /\ feedback.clarity = 10 * cs
            /\ feedback.structure = 10 * ss

\* C11 witness: a call whose keyword score (20/3) and weighted total
\* (6.152...) are both rounded, to 6.7 and 6.2.
RoundedScored ==
    /\ Scored
    /\ IsCase(Rounded)
    /\ feedback.technical_accuracy = 67
    /\ feedback.score = 62

\* C12: with an empty expected-keyword list scoreAnswer returns a Feedback
\* whose keywordRatio and technical_accuracy are 0, whose weaknesses hold
\* 'Many key concepts were not addressed' and whose score is at most 6.0.
EmptyRubricScoredLow ==
    Scored /\ expectedKeywords = <<>> =>
        /\ locals.keywordRatio[1] = 0
        /\ feedback.technical_accuracy = 0
        /\ Has(feedback.weaknesses, "Many key concepts were not addressed")
        /\ feedback.score <= 60

\* C12 witness: the answer to a question missing from the question bank is
\* scored against the empty list and ideal length 100, and reaches 6.0.
NotInBankScored ==
    /\ Scored
    /\ IsCase(NotInBank)
    /\ expectedKeywords = <<>>
    /\ idealLength = 100
    /\ feedback.score = 60

\* C16 as stated: whenever the filler count is greater than 3, the weakness
\* 'Too many filler words detected' and its suggestion are in the Feedback,
\* whatever the clarity score.
FillerWeaknessIndependent ==
    Scored /\ locals.fillerCount > 3 =>
        /\ Has(feedback.weaknesses, "Too many filler words detected")
        /\ Has(feedback.suggestions,
               Note("Practice speaking more directly without filler words"))

\* C17: the length score is (wordCount / (0.5 * ideal)) * 6, below 6, when
\* wordCount < 0.5 * ideal; 7 when wordCount > 2 * ideal; 10 when
\* 0.8 * ideal <= wordCount <= 1.5 * ideal; 8 otherwise.  'Answer was too
\* brief', 'Good answer length' and 'Answer was longer than necessary' are in
\* the Feedback exactly on the first, third and second branch, never two of
\* them.
LengthFit ==
    Scored =>
        LET wc == locals.wordCount
            ls == locals.lengthScore
            brief == 2 * wc < idealLength
            verbose == wc > 2 * idealLength
            sweet == 5 * wc >= 4 * idealLength /\ 2 * wc <= 3 * idealLength
            saysBrief == Has(feedback.weaknesses, "Answer was too brief")
            saysGood == Has(feedback.strengths,
                            "Good answer length with appropriate detail")
            saysLong == Has(feedback.weaknesses, "Answer was longer than necessary")
        IN  /\ brief => ls[1] * idealLength = 12 * wc * ls[2] /\ ls[1] < 6 * ls[2]
            /\ verbose => ls[1] = 7 * ls[2]
            /\ sweet => ls[1] = 10 * ls[2]
            /\ ~brief /\ ~verbose /\ ~sweet => ls[1] = 8 * ls[2]
            /\ saysBrief <=> brief
            /\ saysGood <=> sweet
            /\ saysLong <=> verbose
            /\ ~(saysBrief /\ saysGood) /\ ~(saysBrief /\ saysLong)
            /\ ~(saysGood /\ saysLong)

\* C17 witness: an answer between one and a half times and twice the ideal
\* length, scored 8 without any length feedback.
LengthBetweenScored ==
    /\ Scored
    /\ 2 * locals.wordCount > 3 * idealLength
    /\ locals.wordCount <= 2 * idealLength
    /\ locals.lengthScore = <<8, 1>>
    /\ ~Has(feedback.weaknesses, "Answer was longer than necessary")

\* The bullet character, U+2022.
Bullet == <<"U+2022">>

\* C18 as stated: the structure score is min(10, 5 + s + l + t), s being 2
\* for three or more sentences and 1 for two, l being 2 when the answer holds
\* '-', a bullet character or '1.', t being 1 when it holds a transition word.
StructureFormula ==
    Scored =>
        LET s == IF locals.sentenceCount >= 3 THEN 2
                 ELSE IF locals.sentenceCount = 2 THEN 1 ELSE 0
            l == IF \/ includes(locals.answer, <<"-">>)
                    \/ includes(locals.answer, Bullet)
                    \/ includes(locals.answer, <<"1", ".">>)
                 THEN 2 ELSE 0
            t == IF hasTransitions(locals.answer) THEN 1 ELSE 0
        IN  locals.structureScore = Min(10, 5 + s + l + t)

\* C19: the clarity score is 7 + a + f clamped to [0, 10], a being 2 when
\* 10 <= wordCount / max(1, sentenceCount) <= 30, 1 when the quotient is
\* below 10 and 0 otherwise, f being 1 for no filler, -2 for more than five
\* fillers and 0 otherwise.
ClarityFormula ==
    Scored =>
        LET wc == locals.wordCount
            n == Max(1, locals.sentenceCount)
            a == IF 10 * n <= wc /\ wc <= 30 * n THEN 2
                 ELSE IF wc < 10 * n THEN 1 ELSE 0
            f == IF locals.fillerCount = 0 THEN 1
                 ELSE IF locals.fillerCount > 5 THEN -2 ELSE 0
        IN  /\ locals.clarityScore = Max(0, Min(10, 7 + a + f))
            /\ feedback.clarity = 10 * locals.clarityScore

\* C19 witness: one sentence of more than thirty words with six fillers,
\* scored 7 + 0 - 2.
LongFilledSentenceScored ==
    /\ Scored
    /\ locals.sentenceCount = 1
    /\ locals.wordCount > 30
    /\ locals.fillerCount > 5
    /\ feedback.clarity = 50

\* C20: every Feedback holds exactly one keyword outcome: for keywordRatio
\* >= 0.7 the coverage strength only; for 0.4 <= keywordRatio < 0.7 the
\* weakness 'Some important concepts were missing', with a 'Consider
\* discussing' suggestion exactly when one to three keywords are unmatched,
\* which lists them all; for keywordRatio < 0.4 the weakness 'Many key
\* concepts were not addressed' and the review suggestion.
KeywordFeedbackOnce ==
    Scored =>
        LET r == locals.keywordRatio
            unmatched ==
                SelectSeq(expectedKeywords,
                          LAMBDA kw : ~Has(locals.matchedKeywords, kw))
            covered == Has(feedback.strengths,
                           "Covered most of the key technical concepts")
            some == Has(feedback.weaknesses, "Some important concepts were missing")
            many == Has(feedback.weaknesses, "Many key concepts were not addressed")
            review == Has(feedback.suggestions,
                          Note("Review the fundamental concepts related to this topic"))
            discuss == \E k \in 1..Len(feedback.suggestions) :
                          feedback.suggestions[k].text = "Consider discussing: "
        IN  /\ 10 * r[1] >= 7 * r[2] =>
                  covered /\ ~some /\ ~many /\ ~review /\ ~discuss
            /\ 10 * r[1] >= 4 * r[2] /\ 10 * r[1] < 7 * r[2] =>
                  /\ some /\ ~covered /\ ~many /\ ~review
                  /\ discuss <=> Len(unmatched) \in 1..3
                  /\ discuss =>
                        feedback.suggestions[1].list = join(unmatched, <<",", " ">>)
            /\ 10 * r[1] < 4 * r[2] =>
                  many /\ review /\ ~covered /\ ~some /\ ~discuss

\* C20 witness: three of seven keywords matched, the weakness 'Some important
\* concepts were missing' without a suggestion for the four unmatched.
FourMissingNoSuggestion ==
    /\ Scored
    /\ IsCase(ManyMissing)
    /\ Len(locals.matchedKeywords) = 3
    /\ Has(feedback.weaknesses, "Some important concepts were missing")
    /\ \A k \in 1..Len(feedback.suggestions) :
          feedback.suggestions[k].text # "Consider discussing: "

\* C22: the structure score and the clarity score lie in [5, 10], and the
\* returned score is never below 2.0.
ComponentsAtLeastFive ==
    Scored =>
        /\ locals.structureScore \in 5..10
        /\ locals.clarityScore \in 5..10
        /\ feedback.structure \in 50..100
        /\ feedback.clarity \in 50..100
        /\ feedback.score >= 20

\* C22 witness: an answer scored the least structure and the least clarity
\* at once.
BothFloorsScored ==
    /\ Scored
    /\ feedback.structure = 50
    /\ feedback.clarity = 50

-----------------------------------------------------------------------------
(* Calls of scoreAnswer with the same rubric spelled differently: the      *)
(* keywords in another order, or the answer or a keyword in another letter *)
(* case.                                                                   *)

UpperOf == [i \in {LowerCase[k] : k \in 1..Len(LowerCase)} |->
               UpperCase[CHOOSE k \in 1..Len(LowerCase) : LowerCase[k] = i]]

toUpperCase(s) ==
    [i \in 1..Len(s) |-> IF s[i] \in DOMAIN UpperOf THEN UpperOf[s[i]] ELSE s[i]]

\* Every letter in the other case.
swapCase(s) ==
    [i \in 1..Len(s) |-> IF s[i] \in DOMAIN UpperOf THEN UpperOf[s[i]]
                         ELSE toLowerCaseChar(s[i])]

\* The spellings of s that differ from it in letter case only.
OtherCases(s) == {toUpperCase(s), toLowerCase(s), swapCase(s)} \ {s}

RubricInit ==
    /\ \/ /\ answerText \in ChunkTexts(1)
          /\ expectedKeywords \in KeywordLists(MaxKeywords)
          /\ idealLength \in IdealLengths
       \/ \E case \in ScenarioCases :
             /\ answerText = case.answerText
             /\ expectedKeywords = case.expectedKeywords
             /\ idealLength = case.idealLength
    /\ feedback = NoFeedback
    /\ locals = NoLocals
    /\ lastCall = NoCall
    /\ callKind = "first"
    /\ answerRow = NoRow
    /\ aiReply = NoReply
    /\ voicePc = "idle"
    /\ HandlerIdle
    /\ StartIdle
    /\ SessionIdle

\* A second call with the same answer and ideal length and the keyword list
\* with two of its keywords exchanged.
ScorePermuted ==
    /\ feedback # NoFeedback
    /\ lastCall = NoCall
    /\ \E i, j \in 1..Len(expectedKeywords) :
          /\ i < j
          /\ expectedKeywords[i] # expectedKeywords[j]
          /\ expectedKeywords' = [expectedKeywords EXCEPT ![i] = expectedKeywords[j],
                                                          ![j] = expectedKeywords[i]]
          /\ locals' = scoreLocals(answerText, expectedKeywords', idealLength)
          /\ feedback' = feedbackOf(locals', expectedKeywords', idealLength)
    /\ lastCall' = ThisCall
    /\ callKind' = "permuted"
    /\ UNCHANGED <<answerText, idealLength>>
    /\ UNCHANGED voiceVars
    /\ UNCHANGED handlerVars
    /\ UNCHANGED startVars
    /\ UNCHANGED sessionVars

\* A second call with the answer, or one keyword, in another letter case.
ScoreOtherCase ==
    /\ feedback # NoFeedback
    /\ lastCall = NoCall
    /\ \/ /\ answerText' \in OtherCases(answerText)
          /\ UNCHANGED expectedKeywords
       \/ /\ \E i \in 1..Len(expectedKeywords) :
                \E kw \in OtherCases(expectedKeywords[i]) :
                   expectedKeywords' = [expectedKeywords EXCEPT ![i] = kw]
          /\ UNCHANGED answerText
    /\ locals' = scoreLocals(answerText', expectedKeywords', idealLength)
    /\ feedback' = feedbackOf(locals', expectedKeywords', idealLength)
    /\ lastCall' = ThisCall
    /\ callKind' = "case"
    /\ UNCHANGED idealLength
    /\ UNCHANGED voiceVars
    /\ UNCHANGED handlerVars
    /\ UNCHANGED startVars
    /\ UNCHANGED sessionVars

RubricNext == Score \/ ScorePermuted \/ ScoreOtherCase

SpecRubric == RubricInit /\ [][RubricNext]_vars

-----------------------------------------------------------------------------
(* Properties of scoreAnswer, checked under SpecRubric.                    *)

Range(seq) == {seq[i] : i \in 1..Len(seq)}

\* The keywords a suggestion lists.
ListedKeywords(suggestion) ==
    IF suggestion.list = <<>> THEN {}
    ELSE Range(splitString(suggestion.list, <<",", " ">>))

\* C13 as stated: a call with a permutation of the keyword list returns the
\* same Feedback, suggestions included.
PermutedSameFeedback ==
    callKind = "permuted" => feedback = lastCall.feedback

\* C13: a call with a permutation of the keyword list returns the same
\* numbers, strengths and weaknesses, and the same suggestions except that a
\* 'Consider discussing' suggestion lists the same missing keywords in the
\* order of the permuted list.
PermutedSameScores ==
    callKind = "permuted" =>
        LET old == lastCall.feedback
        IN  /\ feedback.score = old.score
            /\ feedback.technical_accuracy = old.technical_accuracy
            /\ feedback.clarity = old.clarity
            /\ feedback.structure = old.structure
            /\ feedback.strengths = old.strengths
            /\ feedback.weaknesses = old.weaknesses
            /\ Len(feedback.suggestions) = Len(old.suggestions)
            /\ \A k \in 1..Len(old.suggestions) :
                  /\ feedback.suggestions[k].text = old.suggestions[k].text
                  /\ ListedKeywords(feedback.suggestions[k])
                         = ListedKeywords(old.suggestions[k])

\* C13 witness: the binary-search rubric permuted, its two missing keywords
\* listed in the other order.
PermutedListsOtherOrder ==
    /\ callKind = "permuted"
    /\ answerText = BinarySearch.answerText
    /\ feedback.suggestions # lastCall.feedback.suggestions
    /\ Cardinality(ListedKeywords(feedback.suggestions[1])) = 2

-----------------------------------------------------------------------------
(* Properties of the serve handler of score-answer, checked under          *)
(* SpecInterview.                                                          *)

\* A request has been served and none is in progress.
Served == handlerPc = "idle" /\ interviewRow.status = "completed"

\* The questions whose first answer has a text that is not blank.
AnsweredQuestions ==
    SelectSeq(questions,
              LAMBDA q : /\ Len(q.interview_answers) > 0
                         /\ trim(answerTextOf(q.interview_answers[1])) # <<>>)

RECURSIVE SumOfScores(_)
SumOfScores(qs) ==
    IF qs = <<>> THEN 0
    ELSE Head(qs).interview_answers[1].ai_score + SumOfScores(Tail(qs))

\* C15: when score-answer has processed the interview, overall_score is the
\* arithmetic mean of the scores written for the first answers whose text is
\* not blank, and 0 when there is none; the other questions add to neither
\* the sum nor the count.
OverallIsMean ==
    Served =>
        LET scored == AnsweredQuestions
            overall == interviewRow.overall_score
        IN  /\ answeredCount = Len(scored)
            /\ \A k \in 1..Len(scored) :
                  LET q == scored[k]
                      rubric == rubricOf(bankQuestionOf(q.question_text))
                  IN  q.interview_answers[1].ai_score =
                          scoreAnswer(answerTextOf(q.interview_answers[1]),
                                      rubric.expectedKeywords,
                                      rubric.idealLength).score
            /\ IF scored = <<>> THEN overall[1] = 0
               ELSE overall[1] * Len(scored) = SumOfScores(scored) * overall[2]

\* C15 witness: an interview of two scored answers with different scores and
\* the mean of the two as its overall score.
MeanOfTwoWritten ==
    /\ Served
    /\ Len(AnsweredQuestions) = 2
    /\ questions[1].interview_answers[1].ai_score
           # questions[2].interview_answers[1].ai_score
    /\ interviewRow.status = "completed"
    /\ 2 * interviewRow.overall_score[1] =
           (questions[1].interview_answers[1].ai_score
                + questions[2].interview_answers[1].ai_score)
               * interviewRow.overall_score[2]

-----------------------------------------------------------------------------
(* Further properties of analyze-answers, checked under SpecVoice.         *)

\* An answer with a transcript has been analysed.
VoiceAnalysed == Analysed /\ Truthy(answerRow.transcript)

VoiceFillerSet == {voiceFillerWords[i] : i \in 1..Len(voiceFillerWords)}

\* The token in lower case without the '.', ',', '!' and '?' at its end.
RECURSIVE WithoutTrailing(_)
WithoutTrailing(w) ==
    IF w = <<>> THEN w
    ELSE IF w[Len(w)] \in {".", ",", "!", "?"}
    THEN WithoutTrailing(SubSeq(w, 1, Len(w) - 1))
    ELSE toLowerCase(w)

\* The token in lower case without any '.', ',', '!' or '?'.
RECURSIVE WithoutPunctuation(_)
WithoutPunctuation(w) ==
    IF w = <<>> THEN w
    ELSE IF Head(w) \in {".", ",", "!", "?"} THEN WithoutPunctuation(Tail(w))
    ELSE <<toLowerCaseChar(Head(w))>> \o WithoutPunctuation(Tail(w))

\* C21 as stated: fillerWordCount is the number of tokens that equal a filler
\* word once only their trailing punctuation is stripped and case is ignored.
FillerCountTrailingOnly ==
    VoiceAnalysed =>
        LET ws == transcriptWords(answerRow.transcript)
        IN  answerRow.filler_word_count =
                Cardinality({i \in 1..Len(ws) :
                                WithoutTrailing(ws[i]) \in VoiceFillerSet})

\* C21: fillerWordCount is the number of whitespace-separated tokens that
\* equal a filler word once every '.', ',', '!' and '?' is removed from them,
\* wherever it stands, and case is ignored; it lies between 0 and the number
\* of tokens.
FillerCountStripsAll ==
    VoiceAnalysed =>
        LET ws == transcriptWords(answerRow.transcript)
        IN  /\ answerRow.filler_word_count =
                   Cardinality({i \in 1..Len(ws) :
                                   WithoutPunctuation(ws[i]) \in VoiceFillerSet})
            /\ answerRow.filler_word_count \in 0..Len(ws)

\* C21 witness: the tokens 'u.m', ',so' and 'Well!?' of a six-token
\* transcript are counted.
PunctuatedCounted ==
    /\ VoiceAnalysed
    /\ answerRow.transcript = PunctuatedTranscript
    /\ Len(transcriptWords(answerRow.transcript)) = 6
    /\ answerRow.filler_word_count = 3

\* A transcript that is repetitions of 'you know' and nothing else.
RECURSIVE OnlyYouKnow(_)
OnlyYouKnow(ws) ==
    \/ ws = <<>>
    \/ /\ Len(ws) >= 2
       /\ WithoutPunctuation(ws[1]) = <<"y", "o", "u">>
       /\ WithoutPunctuation(ws[2]) = <<"k", "n", "o", "w">>
       /\ OnlyYouKnow(SubSeq(ws, 3, Len(ws)))

\* C23: the two-word filler 'you know' is never counted: fillerWordCount is
\* the number of tokens equal to one of the eight one-word fillers, and 0 for
\* a transcript that is repetitions of 'you know'.
YouKnowNotCounted ==
    VoiceAnalysed =>
        LET ws == transcriptWords(answerRow.transcript)
            single == VoiceFillerSet \ { <<"y", "o", "u", " ", "k", "n", "o", "w">> }
        IN  /\ answerRow.filler_word_count =
                   Cardinality({i \in 1..Len(ws) :
                                   WithoutPunctuation(ws[i]) \in single})
            /\ OnlyYouKnow(ws) => answerRow.filler_word_count = 0

\* C23 witness: 'you know you know' analysed, four tokens and no filler.
YouKnowTwiceAnalysed ==
    /\ VoiceAnalysed
    /\ OnlyYouKnow(transcriptWords(answerRow.transcript))
    /\ answerRow.words_per_minute = 8
    /\ answerRow.filler_word_count = 0

\* C24 as stated: a confidence score computed from a transcript with a
\* clarity in [0, 10] is below 100.
ConfidenceBelowHundred ==
    VoiceAnalysed /\ aiReply.feedback.clarity \in 0..100 =>
        answerRow.confidence_score < 100

-----------------------------------------------------------------------------
(* The serve handler of start-interview: two requests of one user, each    *)
(* step one awaited call of the service client.                            *)

StartInit ==
    /\ progress \in StartProgressRows
    /\ StartIdle
    /\ SessionIdle
    /\ questions = <<>>
    /\ interviewRow = InterviewRow("in_progress", "NULL")
    /\ handlerPc = "idle"
    /\ qIndex = 0
    /\ handlerTotal = 0
    /\ answeredCount = 0
    /\ requests = 0
    /\ caller = NoUser
    /\ answerText = <<>>
    /\ expectedKeywords = <<>>
    /\ idealLength = 100
    /\ feedback = NoFeedback
    /\ locals = NoLocals
    /\ lastCall = NoCall
    /\ callKind = "first"
    /\ answerRow = NoRow
    /\ aiReply = NoReply
    /\ voicePc = "idle"

\* The locals once progress is known: usedQuestionIds, the questions of the
\* role and difficulty fetched and filtered, and the branch taken on
\* availableQuestions.length < 5.
withProgress(asked, row, created) ==
    LET available == availableOf(allQuestionsOf(asked), row.used_question_ids)
    IN  [pc |-> IF Len(available) < 5 THEN "reset" ELSE "select",
         asked |-> asked,
         usedQuestionIds |-> row.used_question_ids,
         total_interviews |-> row.total_interviews,
         created |-> created,
         availableQuestions |-> available,
         reset |-> FALSE,
         selectedQuestions |-> <<>>]

\* A request without a bearer token, or with one getUser rejects: 401.
RejectStart(r) ==
    /\ startReq[r].pc = "idle"
    /\ startReq' = [startReq EXCEPT ![r].pc = "unauthorized"]
    /\ UNCHANGED <<interviewQuestions, progress>>
    /\ UNCHANGED <<questions, interviewRow, handlerPc, qIndex, handlerTotal,
                   answeredCount, requests, caller>>
    /\ UNCHANGED scoreVars
    /\ UNCHANGED voiceVars
    /\ UNCHANGED sessionVars

\* .from('user_progress').select('*').eq('user_id', userId).maybeSingle()
ReadProgress(r) ==
    /\ startReq[r].pc = "idle"
    /\ \E asked \in RolesAsked :
          startReq' =
             [startReq EXCEPT ![r] =
                 IF progress.found THEN withProgress(asked, progress, FALSE)
                 ELSE [IdleStart EXCEPT !.pc = "create", !.asked = asked]]
    /\ UNCHANGED <<interviewQuestions, progress>>
    /\ UNCHANGED <<questions, interviewRow, handlerPc, qIndex, handlerTotal,
                   answeredCount, requests, caller>>
    /\ UNCHANGED scoreVars
    /\ UNCHANGED voiceVars
    /\ UNCHANGED sessionVars

\* if (!progress) insert({ user_id, used_question_ids: [], used_resource_ids: [] });
\* the insert fails on UNIQUE(user_id) when the row exists by now.
CreateProgress(r) ==
    /\ startReq[r].pc = "create"
    /\ IF progress.found
       THEN /\ startReq' = [startReq EXCEPT ![r].pc = "failed"]
            /\ UNCHANGED progress
       ELSE LET newProgress == ProgressRow(<<>>, 0, <<0, 1>>)
            IN  /\ progress' = newProgress
                /\ startReq' =
                      [startReq EXCEPT ![r] =
                          withProgress(startReq[r].asked, newProgress, TRUE)]
    /\ UNCHANGED interviewQuestions
    /\ UNCHANGED <<questions, interviewRow, handlerPc, qIndex, handlerTotal,
                   answeredCount, requests, caller>>
    /\ UNCHANGED scoreVars
    /\ UNCHANGED voiceVars
    /\ UNCHANGED sessionVars

\* availableQuestions.length < 5: the used ids of the role and difficulty are
\* taken out of used_question_ids and every question is available again.
ResetUsed(r) ==
    /\ startReq[r].pc = "reset"
    /\ LET allQuestions == allQuestionsOf(startReq[r].asked)
           newUsedIds == resetUsedIds(startReq[r].usedQuestionIds, allQuestions)
       IN  /\ progress' = [progress EXCEPT !.used_question_ids = newUsedIds]
           /\ startReq' = [startReq EXCEPT ![r].availableQuestions = allQuestions,
                                           ![r].reset = TRUE,
                                           ![r].pc = "select"]
    /\ UNCHANGED interviewQuestions
    /\ UNCHANGED <<questions, interviewRow, handlerPc, qIndex, handlerTotal,
                   answeredCount, requests, caller>>
    /\ UNCHANGED scoreVars
    /\ UNCHANGED voiceVars
    /\ UNCHANGED sessionVars

\* The questions are shuffled, the first five selected and inserted as
\* interview_questions of the interview; 400 when none is selected.
InsertQuestions(r) ==
    /\ startReq[r].pc = "select"
    /\ \E kind \in ShuffleKinds :
          LET selectedQuestions ==
                 selectedOf(shuffle(startReq[r].availableQuestions, kind))
          IN  IF Len(selectedQuestions) = 0
              THEN /\ startReq' = [startReq EXCEPT ![r].pc = "rejected"]
                   /\ UNCHANGED interviewQuestions
              ELSE /\ interviewQuestions' =
                         interviewQuestions \cup questionsToInsert(selectedQuestions, r)
                   /\ startReq' =
                         [startReq EXCEPT ![r].selectedQuestions = selectedQuestions,
                                          ![r].pc = "update"]
    /\ UNCHANGED progress
    /\ UNCHANGED <<questions, interviewRow, handlerPc, qIndex, handlerTotal,
                   answeredCount, requests, caller>>
    /\ UNCHANGED scoreVars
    /\ UNCHANGED voiceVars
    /\ UNCHANGED sessionVars

\* if (insertError) throw insertError
InsertFails(r) ==
    /\ startReq[r].pc = "select"
    /\ Len(startReq[r].availableQuestions) > 0
    /\ startReq' = [startReq EXCEPT ![r].pc = "failed"]
    /\ UNCHANGED <<interviewQuestions, progress>>
    /\ UNCHANGED <<questions, interviewRow, handlerPc, qIndex, handlerTotal,
                   answeredCount, requests, caller>>
    /\ UNCHANGED scoreVars
    /\ UNCHANGED voiceVars
    /\ UNCHANGED sessionVars

\* used_question_ids: [...usedQuestionIds, ...selected ids] and
\* total_interviews: (progress.total_interviews || 0) + 1, both from the row
\* as this request read it.
UpdateProgress(r) ==
    /\ startReq[r].pc = "update"
    /\ progress' =
          [progress EXCEPT
              !.used_question_ids =
                  startReq[r].usedQuestionIds \o idsOf(startReq[r].selectedQuestions),
              !.total_interviews = startReq[r].total_interviews + 1]
    /\ startReq' = [startReq EXCEPT ![r].pc = "done"]
    /\ UNCHANGED interviewQuestions
    /\ UNCHANGED <<questions, interviewRow, handlerPc, qIndex, handlerTotal,
                   answeredCount, requests, caller>>
    /\ UNCHANGED scoreVars
    /\ UNCHANGED voiceVars
    /\ UNCHANGED sessionVars

StartNext ==
    \E r \in StartRequests :
        \/ RejectStart(r)
        \/ ReadProgress(r)
        \/ CreateProgress(r)
        \/ ResetUsed(r)
        \/ InsertQuestions(r)
        \/ InsertFails(r)
        \/ UpdateProgress(r)

SpecStart == StartInit /\ [][StartNext]_vars

-----------------------------------------------------------------------------
(* Properties of the serve handler of start-interview, checked under       *)
(* SpecStart.                                                              *)

\* The request has inserted its interview_questions.
Inserted(r) == startReq[r].pc \in {"update", "done"}

\* Ids of the questions of the role and difficulty asked for that are absent
\* from used_question_ids as the request read it.
UnusedIds(r) ==
    LET allQuestions == allQuestionsOf(startReq[r].asked)
    IN  { allQuestions[i].id : i \in DOMAIN allQuestions } \
        { startReq[r].usedQuestionIds[i] : i \in DOMAIN startReq[r].usedQuestionIds }

\* The interview_questions rows of the request's interview.
RowsOf(r) == { row \in interviewQuestions : row.interview_id = r }

\* C25: when at least 5 questions of the role and difficulty asked for are
\* absent from used_question_ids as read at the start of the call, the
\* selected questions are at most 5, pairwise distinct, all absent from that
\* list, and they are the rows inserted, numbered 1..k in selection order.
SelectedAreUnused ==
    \A r \in StartRequests :
        (Inserted(r) /\ Cardinality(UnusedIds(r)) >= 5) =>
            LET selected == startReq[r].selectedQuestions
            IN  /\ Len(selected) <= 5
                /\ \A i, j \in DOMAIN selected :
                       selected[i].id = selected[j].id => i = j
                /\ \A i \in DOMAIN selected : selected[i].id \in UnusedIds(r)
                /\ RowsOf(r) =
                       { [interview_id |-> r, question_number |-> i,
                          question_text |-> selected[i].question_text] :
                         i \in 1..Len(selected) }

\* C25 witness: a request whose user had used a question of the role asked for
\* and had five more unused has inserted five questions.
FiveUnusedInserted ==
    \E r \in StartRequests :
        /\ startReq[r].pc = "done"
        /\ Cardinality(UnusedIds(r)) >= 5
        /\ startReq[r].usedQuestionIds = <<1>>
        /\ startReq[r].asked.role = "frontend"
        /\ Cardinality(RowsOf(r)) = 5

\* The ids at the positions of a list of ids.
IdSet(ids) == { ids[i] : i \in DOMAIN ids }

\* No id stands at two positions of the list.
NoIdTwice(ids) == \A i, j \in DOMAIN ids : ids[i] = ids[j] => i = j

\* C26: when a request, the only one of the user, has taken the reset branch
\* and finished, the used_question_ids stored hold, among the ids of the role
\* and difficulty asked for, only the questions selected by the request, and
\* hold no id twice.
ResetKeepsOnlySelected ==
    \A r \in StartRequests :
        ( /\ startReq[r].pc = "done"
          /\ startReq[r].reset
          /\ \A other \in StartRequests \ {r} : startReq[other].pc = "idle" ) =>
            LET allQuestions == allQuestionsOf(startReq[r].asked)
                ofRole == { allQuestions[i].id : i \in DOMAIN allQuestions }
            IN  /\ IdSet(progress.used_question_ids) \cap ofRole
                      \subseteq IdSet(idsOf(startReq[r].selectedQuestions))
                /\ NoIdTwice(progress.used_question_ids)

\* The total_interviews of the user before the two requests: the smaller of
\* the two values read (0 when the first request created the row).
TotalBefore ==
    Min(startReq["first"].total_interviews, startReq["second"].total_interviews)

\* C27: when both requests have succeeded, total_interviews has grown by 2
\* and used_question_ids holds the questions selected by both.
NoStartUpdateLost ==
    (\A r \in StartRequests : startReq[r].pc = "done") =>
        /\ progress.total_interviews = TotalBefore + 2
        /\ \A r \in StartRequests :
               IdSet(idsOf(startReq[r].selectedQuestions))
                   \subseteq IdSet(progress.used_question_ids)

-----------------------------------------------------------------------------
(* Further properties of the serve handler of score-answer, checked under  *)
(* SpecInterview.                                                          *)

\* get-progress: progress?.total_interviews && progress?.total_score
\*   ? progress.total_score / progress.total_interviews : 0, in tenths.
averageScore(row) ==
    IF row.found /\ row.total_interviews # 0 /\ row.total_score[1] # 0
    THEN <<row.total_score[1], row.total_score[2] * row.total_interviews>>
    ELSE <<0, 1>>

\* get-progress: Math.round(averageScore * 10) / 10, in tenths.
reportedAverage(row) == MathRound(averageScore(row))

\* The averageScore get-progress reports is at most 10.
AverageAtMostTen == reportedAverage(progress) <= 100

\* C28: a step of score-answer for an interview that is already completed
\* leaves the user_progress row, and so total_score, as it was.
ScoreAddedOnce ==
    [][interviewRow.status = "completed" => progress' = progress]_vars

\* C29: a step of a request whose authenticated caller is not the interview's
\* user changes no answer row, not the interviews row and not the owner's
\* user_progress row.
OnlyOwnerScores ==
    [][(handlerPc = "loop" /\ caller # InterviewOwner) =>
           UNCHANGED <<questions, interviewRow, progress>>]_vars

-----------------------------------------------------------------------------
(* The InterviewSession page: typing, answering by voice and navigating.   *)

\* The answers an interview can have when the page is opened.
LoadedAnswers ==
    {[i \in SessionIndices |-> NoAnswer],
     [i \in SessionIndices |-> IF i = 0 THEN Answer(<<"a">>) ELSE NoAnswer]}

\* The page once fetchQuestions has loaded the questions and their answers.
SessionInit ==
    /\ currentIndex = 0
    /\ textAnswer = <<>>
    /\ answerRows \in LoadedAnswers
    /\ answers = answerRows
    /\ answerMode = "text"
    /\ answerText = <<>>
    /\ expectedKeywords = <<>>
    /\ idealLength = 100
    /\ feedback = NoFeedback
    /\ locals = NoLocals
    /\ lastCall = NoCall
    /\ callKind = "first"
    /\ answerRow = NoRow
    /\ aiReply = NoReply
    /\ voicePc = "idle"
    /\ HandlerIdle
    /\ StartIdle

\* saveTextAnswer, the local map: nothing for a blank text, else the entry of
\* the current question takes the text.
savedAnswers ==
    IF isBlank(textAnswer) THEN answers
    ELSE [answers EXCEPT ![currentIndex] = Answer(textAnswer)]

\* saveTextAnswer, interview_answers: nothing for a blank text; an update of the
\* question's row when the local map has an answer of it, else an insert.
savedRows ==
    IF isBlank(textAnswer) THEN answerRows
    ELSE IF answers[currentIndex].found /\ ~answerRows[currentIndex].found
         THEN answerRows
         ELSE [answerRows EXCEPT ![currentIndex] = Answer(textAnswer)]

\* onChange of the text area, shown in text mode.
TypeAnswer ==
    /\ answerMode = "text"
    /\ \E text \in SessionTexts : textAnswer' = text
    /\ UNCHANGED <<currentIndex, answers, answerRows, answerMode>>
    /\ UNCHANGED scoreVars
    /\ UNCHANGED voiceVars
    /\ UNCHANGED handlerVars
    /\ UNCHANGED startVars

\* onValueChange of the tabs.
SetAnswerMode ==
    /\ answerMode' = IF answerMode = "text" THEN "voice" ELSE "text"
    /\ UNCHANGED <<currentIndex, textAnswer, answers, answerRows>>
    /\ UNCHANGED scoreVars
    /\ UNCHANGED voiceVars
    /\ UNCHANGED handlerVars
    /\ UNCHANGED startVars

\* handleVoiceRecordingComplete(audioUrl, transcript)
VoiceRecordingComplete ==
    /\ answerMode = "voice"
    /\ \E transcript \in SessionTexts :
          /\ answers' = [answers EXCEPT ![currentIndex] = Answer(transcript)]
          /\ answerRows' =
                IF answers[currentIndex].found /\ ~answerRows[currentIndex].found
                THEN answerRows
                ELSE [answerRows EXCEPT ![currentIndex] = Answer(transcript)]
    /\ UNCHANGED <<currentIndex, textAnswer, answerMode>>
    /\ UNCHANGED scoreVars
    /\ UNCHANGED voiceVars
    /\ UNCHANGED handlerVars
    /\ UNCHANGED startVars

\* goToNext; the button is rendered for every question but the last.
goToNext ==
    /\ currentIndex < MaxSessionQuestions - 1
    /\ IF answerMode = "text"
       THEN answers' = savedAnswers /\ answerRows' = savedRows
       ELSE UNCHANGED <<answers, answerRows>>
    /\ currentIndex' = currentIndex + 1
    /\ textAnswer' = savedTextOf(answers, currentIndex + 1)
    /\ UNCHANGED answerMode
    /\ UNCHANGED scoreVars
    /\ UNCHANGED voiceVars
    /\ UNCHANGED handlerVars
    /\ UNCHANGED startVars

\* goToPrevious; the button is disabled on the first question.
goToPrevious ==
    /\ currentIndex > 0
    /\ currentIndex' = currentIndex - 1
    /\ textAnswer' = savedTextOf(answers, currentIndex - 1)
    /\ UNCHANGED <<answers, answerRows, answerMode>>
    /\ UNCHANGED scoreVars
    /\ UNCHANGED voiceVars
    /\ UNCHANGED handlerVars
    /\ UNCHANGED startVars

\* handleSubmitInterview, rendered on the last question: the text is saved
\* and score-answer invoked.
handleSubmitInterview ==
    /\ currentIndex = MaxSessionQuestions - 1
    /\ IF answerMode = "text"
       THEN answers' = savedAnswers /\ answerRows' = savedRows
       ELSE UNCHANGED <<answers, answerRows>>
    /\ UNCHANGED <<currentIndex, textAnswer, answerMode>>
    /\ UNCHANGED scoreVars
    /\ UNCHANGED voiceVars
    /\ UNCHANGED handlerVars
    /\ UNCHANGED startVars

SessionNext ==
    \/ TypeAnswer
    \/ SetAnswerMode
    \/ VoiceRecordingComplete
    \/ goToNext
    \/ goToPrevious
    \/ handleSubmitInterview

SpecSession == SessionInit /\ [][SessionNext]_vars

\* C30: in text mode, when the page moves to another question while the
\* answer box holds a text that is not blank, that text is by then the
\* answer of the question left, in interview_answers and in the local map.
TypedAnswerSaved ==
    [][(/\ currentIndex' # currentIndex
        /\ answerMode = "text"
        /\ ~isBlank(textAnswer)) =>
           /\ answers'[currentIndex] = Answer(textAnswer)
           /\ answerRows'[currentIndex] = Answer(textAnswer)]_vars

=============================================================================
